---- MODULE Spec2Model ----
(***************************************************************************)
(* Model of loxprox's resilient broker sink (loxprox/outputs/mqtt.py,      *)
(* class MQTTOutput) together with the two stateless sinks (HueOutput,     *)
(* TelegrafOutput).                                                        *)
(*                                                                         *)
(* Threads of one MQTTOutput instance:                                     *)
(*   - the caller's thread, which runs connect() and disconnect();         *)
(*   - one network-loop thread per transport client whose loop_start() was *)
(*     called; it delivers _on_connect and _on_disconnect;                 *)
(*   - the reconnection workers running _reconnect_loop.                   *)
(* Every method is cut into steps at the points where another thread can   *)
(* observe or change the shared fields.                                    *)
(***************************************************************************)
EXTENDS Integers, FiniteSets, Sequences, TLC

\* ---- bounds of the model ----
MaxWorkers == 2            \* worker thread objects that can exist at once
MaxClients == 2            \* transport client objects that can exist at once
MaxAttempts == 2           \* cap on reconnect_attempts / attempts per activation
retry_initial_attempts == 1   \* config value (default 15), small for the model

\* ---- identities ----
None == 0                  \* Python None for client / reconnect_thread
Workers == 1..MaxWorkers
Caller == MaxWorkers + 1   \* the thread that calls connect() / disconnect()
Threads == {Caller} \cup Workers
Clients == 1..MaxClients

VARIABLES
    client,              \* self.client: None or a transport client
    connected,           \* self.connected
    reconnect_attempts,  \* self.reconnect_attempts
    reconnect_thread,    \* self.reconnect_thread: None or a worker
    stop_reconnect,      \* self.stop_reconnect (Event): is_set()
    reconnect_lock,      \* self.reconnect_lock: set of threads inside "with"
    pc,                  \* position of the caller and of every worker
    wasConnected,        \* during connect(): self.connected at the call
    again,               \* during disconnect(): the previous call on this
                         \* sink was a disconnect() that has returned
    cst,                 \* per transport client: "free" (no such object),
                         \* "down" (no connection), "wait" (connection
                         \* made, CONNACK pending), "est" (CONNACK rc = 0)
    loopOn,              \* transport clients whose network loop thread runs
    tpc,                 \* position of each network loop thread
    attemptNo,           \* per worker: attempts made in this activation
    retry_interval,      \* per worker: local retry_interval (none/short/long)
    bridge,              \* HueOutput.bridge is not None
    socket,              \* TelegrafOutput.socket is not None
    spc,                 \* position of the thread inside MQTTOutput.send,
                         \* or how its last call ended
    msg,                 \* send: the locals topic and raw_packet
    published,           \* the last client.publish(topic, raw_packet) issued
    emitted,             \* the last line TelegrafOutput.send gave to sendto
    routing,             \* OutputManager.routing: device type -> outputs list
    config,              \* the configuration load_config works on (its
                         \* routing section); NoData where the model starts
                         \* from a manager that is built or from a sink
    outputs,             \* OutputManager.outputs: names of the stored sinks
    mpc,                 \* position of the OutputManager's owner
    stage,               \* position inside process_packet / route_data
    prev,                \* how process_packet ended for the packet before
    packet_str,          \* process_packet: the decoded packet text
    parsed_data,         \* process_packet: result of parse_packet
    processed_data,      \* process_packet: result of process_data, the
                         \* argument of route_data
    rIdx,                \* route_data: index of output_name in target_outputs
    results,             \* route_data: the results dict
    sendLog              \* route_data: names whose send was invoked, in order

mqttVars == <<client, connected, reconnect_attempts, reconnect_thread,
              stop_reconnect, reconnect_lock, pc, wasConnected, again, cst,
              loopOn, tpc, attemptNo, retry_interval>>
vars == <<client, connected, reconnect_attempts, reconnect_thread,
          stop_reconnect, reconnect_lock, pc, wasConnected, again, cst,
          loopOn, tpc, attemptNo, retry_interval, bridge, socket,
          spc, msg, published, emitted, routing, config, outputs, mpc, stage,
          prev,
          packet_str, parsed_data, processed_data, rIdx, results, sendLog>>
\* the variables outside the sinks' connection state
sendVars == <<spc, msg, published>>
routeVars == <<routing, config, outputs, rIdx, results, sendLog>>
packetVars == <<stage, prev, packet_str, parsed_data, processed_data>>
restVars == <<sendVars, emitted, routeVars, mpc, packetVars>>

\* ---- text (loxprox/inputs/parser.py) ----
\* A Python str is a sequence of one-character strings.  The characters of
\* the model are lowercase letters, digits, the separators of the packet
\* format, the signs, the space and the newline.
Digit == {"0", "1", "2", "3", "4", "5", "6", "7", "8", "9"}
Lower == {"a", "b", "c", "d", "e", "f", "g", "h", "i", "j", "k", "l", "m",
          "n", "o", "p", "q", "r", "s", "t", "u", "v", "w", "x", "y", "z"}
Space == {" ", "\n"}
DigitValue(c) == CHOOSE n \in 0..9 : <<"0", "1", "2", "3", "4", "5", "6", "7", "8", "9">>[n + 1] = c

AllIn(s, S) == \A i \in 1..Len(s) : s[i] \in S

\* str.strip()
RECURSIVE LStrip(_)
LStrip(s) == IF s # <<>> /\ Head(s) \in Space THEN LStrip(Tail(s)) ELSE s
RECURSIVE RStrip(_)
RStrip(s) ==
    IF s # <<>> /\ s[Len(s)] \in Space THEN RStrip(SubSeq(s, 1, Len(s) - 1)) ELSE s
Strip(s) == RStrip(LStrip(s))

\* index of the first occurrence of the character sep in s, 0 when absent
Find(s, sep) ==
    IF \E i \in 1..Len(s) : s[i] = sep
    THEN CHOOSE i \in 1..Len(s) : s[i] = sep /\ \A j \in 1..(i - 1) : s[j] # sep
    ELSE 0

\* str.split(sep): every occurrence of sep separates two parts
RECURSIVE Split(_, _)
Split(s, sep) ==
    LET i == Find(s, sep)
    IN IF i = 0 THEN <<s>>
       ELSE <<SubSeq(s, 1, i - 1)>> \o Split(SubSeq(s, i + 1, Len(s)), sep)

\* str.split(sep, 1) of a str that contains sep
SplitOnce(s, sep) ==
    LET i == Find(s, sep)
    IN <<SubSeq(s, 1, i - 1), SubSeq(s, i + 1, Len(s))>>

\* sep.join(parts)
RECURSIVE Join(_, _)
Join(parts, sep) ==
    IF parts = <<>> THEN <<>>
    ELSE IF Len(parts) = 1 THEN parts[1]
    ELSE parts[1] \o <<sep>> \o Join(Tail(parts), sep)

RECURSIVE DigitsValue(_)
DigitsValue(s) ==
    IF s = <<>> THEN 0
    ELSE 10 * DigitsValue(SubSeq(s, 1, Len(s) - 1)) + DigitValue(s[Len(s)])

Unsigned(s) == IF s # <<>> /\ Head(s) \in {"+", "-"} THEN Tail(s) ELSE s

\* int(s): surrounding whitespace is ignored, one sign is allowed, at least
\* one digit is needed (ValueError otherwise)
IsIntText(s) ==
    LET u == Unsigned(Strip(s))
    IN u # <<>> /\ AllIn(u, Digit)
IntOf(s) ==
    LET t == Strip(s)
        n == DigitsValue(Unsigned(t))
    IN IF Head(t) = "-" THEN 0 - n ELSE n

\* str(n) of an int, as an f-string writes it
RECURSIVE NatText(_)
NatText(n) ==
    IF n < 10 THEN <<<<"0", "1", "2", "3", "4", "5", "6", "7", "8", "9">>[n + 1]>>
    ELSE NatText(n \div 10) \o <<<<"0", "1", "2", "3", "4", "5", "6", "7", "8", "9">>[(n % 10) + 1]>>
IntText(n) == IF n < 0 THEN <<"-">> \o NatText(0 - n) ELSE NatText(n)

\* float(s) for literals of the form [sign] digits [. digits] with at least
\* one digit (ValueError otherwise).  The value keeps the integer part and
\* the fraction digits without trailing zeros, so "5.220" and "5.22" denote
\* the same float.
RECURSIVE DropZeros(_)
DropZeros(s) ==
    IF s # <<>> /\ s[Len(s)] = "0" THEN DropZeros(SubSeq(s, 1, Len(s) - 1)) ELSE s
IsFloatText(s) ==
    LET parts == Split(Unsigned(Strip(s)), ".")
    IN /\ Len(parts) <= 2
       /\ \A i \in 1..Len(parts) : AllIn(parts[i], Digit)
       /\ \E i \in 1..Len(parts) : parts[i] # <<>>
FloatOf(s) ==
    LET t == Strip(s)
        parts == Split(Unsigned(t), ".")
    IN [negative |-> (Head(t) = "-"),
        whole |-> DigitsValue(parts[1]),
        frac |-> IF Len(parts) = 2 THEN DropZeros(parts[2]) ELSE <<>>]

\* ---- readings (Dict[str, Any]) ----
\* A reading is a record; Python None is NoData.  The keys of a value dict
\* are text, like the keys read from a packet.
NoData == [none |-> TRUE]
Has(d, k) == k \in DOMAIN d
\* dict.get(k, default)
Get(d, k, default) == IF k \in DOMAIN d THEN d[k] ELSE default
\* the dict d with d[k] = v
Put(d, k, v) == [x \in DOMAIN d \cup {k} |-> IF x = k THEN v ELSE d[x]]
EmptyDict == [x \in {} |-> 0]

ph == <<"p", "h">>
pm == <<"p", "m">>
k_mode == <<"m", "o", "d", "e">>
k_r == <<"r">>
k_g == <<"g">>
k_b == <<"b">>
k_brightness == <<"b", "r", "i", "g", "h", "t", "n", "e", "s", "s">>
k_kelvin == <<"k", "e", "l", "v", "i", "n">>
k_raw_value == <<"r", "a", "w", "_", "v", "a", "l", "u", "e">>
k_raw == <<"r", "a", "w">>
k_pf == <<"p", "f">>

m_rgb == <<"r", "g", "b">>
m_cct == <<"c", "c", "t">>

\* ---- InputParser (loxprox/inputs/parser.py) ----
\* json.loads is modelled on sample documents: one character of a packet can
\* stand for a whole JSON object text "{...}"; JsonDocument gives the object
\* it denotes.  Every other text that starts with "{" is invalid JSON.
JsonDocument ==
    [x \in {"{ph_rgb}", "{ph_over}", "{ph_blink}", "{ph_novalue}", "{xx}",
            "{noid}", "{pm_fields}"} |->
        CASE x = "{ph_rgb}" ->
               [type |-> ph, id |-> 9,
                value |-> (k_mode :> m_rgb) @@ (k_r :> 255) @@ (k_g :> 0) @@ (k_b :> 0)]
          [] x = "{ph_over}" ->
               [type |-> ph, id |-> 9,
                value |-> (k_mode :> m_rgb) @@ (k_r :> 300) @@ (k_g :> 0 - 5) @@ (k_b :> 7)]
          [] x = "{ph_blink}" ->
               [type |-> ph, id |-> 9, value |-> (k_mode :> <<"b", "l", "i", "n", "k">>)]
          [] x = "{ph_novalue}" -> [type |-> ph, id |-> 9]
          [] x = "{xx}" -> [type |-> <<"x", "x">>, id |-> 1, value |-> (<<"a">> :> 1)]
          [] x = "{noid}" -> [type |-> ph]
          [] x = "{pm_fields}" ->
               [type |-> pm, id |-> 2,
                value |-> (k_pf :> [negative |-> FALSE, whole |-> 1, frac |-> <<"5">>])]]

\* "data.strip().startswith('{')"
StartsWithBrace(data) ==
    LET t == Strip(data)
    IN t # <<>> /\ (Head(t) = "{" \/ Head(t) \in DOMAIN JsonDocument)

\* _parse_json_data
ParseJsonData(data) ==
    LET t == Strip(data)
    IN IF Len(t) = 1 /\ t[1] \in DOMAIN JsonDocument
       THEN LET json_data == JsonDocument[t[1]]
            IN IF ~Has(json_data, "type") \/ ~Has(json_data, "id")
               THEN NoData
               ELSE [device_type |-> json_data.type,
                     device_id |-> IntText(json_data.id),
                     value |-> Get(json_data, "value", EmptyDict)]
       ELSE NoData

\* device_pattern = ^([a-z]+)(\d+)$ ; "$" also matches before a final newline
DeviceText(device_str) ==
    IF device_str # <<>> /\ device_str[Len(device_str)] = "\n"
    THEN SubSeq(device_str, 1, Len(device_str) - 1)
    ELSE device_str
DeviceSplit(device_str) ==
    LET t == DeviceText(device_str)
    IN {k \in 1..(Len(t) - 1) :
            /\ AllIn(SubSeq(t, 1, k), Lower)
            /\ AllIn(SubSeq(t, k + 1, Len(t)), Digit)}
DeviceMatches(device_str) == DeviceSplit(device_str) # {}
DeviceType(device_str) ==
    LET k == CHOOSE k \in DeviceSplit(device_str) : TRUE
    IN SubSeq(DeviceText(device_str), 1, k)
DeviceId(device_str) ==
    LET t == DeviceText(device_str)
        k == CHOOSE k \in DeviceSplit(device_str) : TRUE
    IN SubSeq(t, k + 1, Len(t))

\* variants of _convert_payload: channels rounded to the nearest integer, and
\* a brightness read from two digits
ConvertPayloadRounded(device_type, payload) ==
    IF device_type = ph /\ 0 <= payload /\ payload <= 100100100
    THEN (k_mode :> m_rgb)
         @@ (k_b :> ((payload \div 1000000) * 255 + 50) \div 100)
         @@ (k_g :> (((payload \div 1000) % 1000) * 255 + 50) \div 100)
         @@ (k_r :> ((payload % 1000) * 255 + 50) \div 100)
    ELSE NoData
ConvertPayloadTwoDigits(device_type, payload) ==
    IF device_type = ph /\ 200002700 <= payload /\ payload <= 201006500
    THEN (k_mode :> m_cct)
         @@ (k_brightness :> (payload \div 10000) % 100)
         @@ (k_kelvin :> payload % 10000)
    ELSE NoData

\* _convert_payload; int(x * 255 / 100) of a group x >= 0 is the quotient
ConvertPayload(device_type, payload) ==
    IF device_type = ph
    THEN IF 0 <= payload /\ payload <= 100100100
         THEN (k_mode :> m_rgb)
              @@ (k_b :> ((payload \div 1000000) * 255) \div 100)
              @@ (k_g :> (((payload \div 1000) % 1000) * 255) \div 100)
              @@ (k_r :> ((payload % 1000) * 255) \div 100)
         ELSE IF 200002700 <= payload /\ payload <= 201006500
         THEN (k_mode :> m_cct)
              @@ (k_brightness :> (payload \div 10000) % 1000)
              @@ (k_kelvin :> payload % 10000)
         ELSE NoData
    ELSE IF device_type = pm
    THEN (k_raw_value :> payload)
    ELSE NoData

\* _parse_power_meter_payload: the loop over the pairs; a later pair with the
\* same key overwrites an earlier one
RECURSIVE PowerPairs(_, _)
PowerPairs(pairs, result) ==
    IF pairs = <<>> THEN result
    ELSE LET pair == Head(pairs)
         IN IF Find(pair, ":") = 0
            THEN PowerPairs(Tail(pairs), result)
            ELSE LET kv == SplitOnce(pair, ":")
                 IN IF IsFloatText(kv[2])
                    THEN PowerPairs(Tail(pairs), Put(result, kv[1], FloatOf(kv[2])))
                    ELSE PowerPairs(Tail(pairs), result)
ParsePowerMeterPayload(payload_str) ==
    LET result == PowerPairs(Split(payload_str, ","), EmptyDict)
    IN IF DOMAIN result = {} \/ ~Has(result, k_pf) THEN NoData ELSE result

\* _parse_legacy_data
ParseLegacyData(data) ==
    LET parts == Split(data, ".")
    IN IF Len(parts) # 2 THEN NoData
       ELSE IF ~DeviceMatches(parts[1]) THEN NoData
       ELSE LET device_type == DeviceType(parts[1])
                device_id == DeviceId(parts[1])
                payload_str == parts[2]
                value == IF Find(payload_str, ":") # 0 /\ device_type = pm
                         THEN ParsePowerMeterPayload(payload_str)
                         ELSE IF ~IsIntText(payload_str) THEN NoData
                         ELSE ConvertPayload(device_type, IntOf(payload_str))
            IN IF value = NoData THEN NoData
               ELSE [device_type |-> device_type,
                     device_id |-> device_id,
                     value |-> value]

\* _parse_data
ParseData(data) ==
    IF StartsWithBrace(data) THEN ParseJsonData(data) ELSE ParseLegacyData(data)

\* "parts = packet.strip().split(';')"
PacketParts(packet) == Split(Strip(packet), ";")

\* parse_packet
ParsePacket(packet) ==
    LET parts == PacketParts(packet)
    IN IF Len(parts) < 3 THEN NoData
       ELSE LET parsed_data_1 == ParseData(parts[3])
            IN IF parsed_data_1 = NoData THEN NoData
               ELSE [device_type |-> parsed_data_1.device_type,
                     device_id |-> parsed_data_1.device_id,
                     value |-> parsed_data_1.value,
                     timestamp |-> parts[1],
                     source |-> parts[2]]

\* ---- handlers (loxprox/handlers, loxprox/handler_manager.py) ----
\* a clamp without the lower limit
ClampUpper(lo, hi, x) == IF x > hi THEN hi ELSE x
Clamp(lo, hi, x) == IF x < lo THEN lo ELSE IF x > hi THEN hi ELSE x

\* the five keys every handler result has; "raw_packet" and
\* "raw_data_string" are copied by LightHandler when the input has them
HandlerResult(data, value) ==
    [device_type |-> data.device_type,
     device_id |-> data.device_id,
     value |-> value,
     timestamp |-> Get(data, "timestamp", NoData),
     source |-> Get(data, "source", NoData)]
CopyKey(result, data, k) ==
    IF Has(data, k)
    THEN [x \in DOMAIN result \cup {k} |-> IF x = k THEN data[k] ELSE result[x]]
    ELSE result

\* LightHandler.process
LightProcess(data) ==
    IF ~Has(data, "device_type") \/ data.device_type # ph THEN NoData
    ELSE LET value == Get(data, "value", EmptyDict)
         IN IF Has(value, k_mode) /\ value[k_mode] = m_rgb
            THEN LET v1 == Put(value, k_r, Clamp(0, 255, Get(value, k_r, 0)))
                     v2 == Put(v1, k_g, Clamp(0, 255, Get(value, k_g, 0)))
                     v3 == Put(v2, k_b, Clamp(0, 255, Get(value, k_b, 0)))
                 IN CopyKey(CopyKey(HandlerResult(data, v3), data, "raw_packet"),
                            data, "raw_data_string")
            ELSE IF Has(value, k_mode) /\ value[k_mode] = m_cct
            THEN LET v1 == Put(value, k_brightness,
                               Clamp(0, 100, Get(value, k_brightness, 0)))
                     v2 == Put(v1, k_kelvin,
                               Clamp(2700, 6500, Get(value, k_kelvin, 3000)))
                 IN CopyKey(CopyKey(HandlerResult(data, v2), data, "raw_packet"),
                            data, "raw_data_string")
            ELSE NoData

\* a power handler that rejects a value without raw_value
PowerProcessRawOnly(data) ==
    IF Has(data, "value") /\ Has(data.value, k_raw_value)
    THEN [device_type |-> data.device_type,
          device_id |-> data.device_id,
          value |-> (k_raw :> data.value[k_raw_value]),
          timestamp |-> Get(data, "timestamp", NoData),
          source |-> Get(data, "source", NoData)]
    ELSE NoData

\* PowerHandler.process
PowerProcess(data) ==
    IF ~Has(data, "device_type") \/ data.device_type # pm THEN NoData
    ELSE LET value == Get(data, "value", EmptyDict)
         IN IF Has(value, k_raw_value)
            THEN HandlerResult(data, (k_raw :> value[k_raw_value]))
            ELSE HandlerResult(data, value)

\* HandlerManager.handlers after _register_default_handlers
HandlerTypes == {ph, pm}

\* HandlerManager.process_data
ProcessData(data) ==
    IF ~Has(data, "device_type") \/ data.device_type = <<>> THEN NoData
    ELSE IF data.device_type \notin HandlerTypes THEN NoData
    ELSE IF data.device_type = ph THEN LightProcess(data)
    ELSE PowerProcess(data)

\* ---- helpers ----
Alive(w) == /\ w # None
            /\ pc[w] \notin {"unused", "dead"}
AliveWorkers == {w \in Workers : Alive(w)}

\* "connect_ret": connect() has returned True; "connect_false": False
CallerRest == {"idle", "connect_ret", "connect_false", "disconnect_ret"}
\* the body of _do_connect, i.e. the code inside "with self.reconnect_lock"
DoConnectBody == {"dc_cleanup", "dc_create", "dc_connect", "dc_check"}
DoConnectPcs == {"dc_lock"} \cup DoConnectBody

Min(S) == CHOOSE x \in S : \A y \in S : x <= y

\* the three sinks after construction
InitSinks ==
    /\ client = None
    /\ connected = FALSE
    /\ reconnect_attempts = 0
    /\ reconnect_thread = None
    /\ stop_reconnect = FALSE
    /\ reconnect_lock = {}
    /\ pc = [t \in Threads |-> IF t = Caller THEN "idle" ELSE "unused"]
    /\ wasConnected = FALSE
    /\ again = FALSE
    /\ cst = [c \in Clients |-> "free"]
    /\ loopOn = {}
    /\ tpc = [c \in Clients |-> "idle"]
    /\ attemptNo = [w \in Workers |-> 0]
    /\ retry_interval = [w \in Workers |-> "none"]
    /\ bridge = FALSE
    /\ socket = FALSE

\* no send, no packet and no dispatch has happened
InitCalls ==
    /\ spc = "idle"
    /\ msg = NoData
    /\ published = NoData
    /\ emitted = NoData
    /\ stage = "idle"
    /\ prev = "idle"
    /\ packet_str = <<>>
    /\ parsed_data = NoData
    /\ processed_data = NoData
    /\ rIdx = 0
    /\ results = EmptyDict
    /\ sendLog = <<>>

\* the sinks on their own: no OutputManager holds them
Init ==
    /\ InitSinks
    /\ InitCalls
    /\ routing = EmptyDict
    /\ config = NoData
    /\ outputs = {}
    /\ mpc = "new"

\* ---- reconnect_lock ("with self.reconnect_lock") ----
LockFreeNoMutex == TRUE
LockFree == reconnect_lock = {}

\* ---- the transport client (paho) as far as the sink uses it ----
\* loop_stop() followed by disconnect() on transport client c.  loop_stop()
\* joins the network loop thread, so it waits for a callback in progress.
\* disconnect() on a client that owns a socket may run _on_disconnect with
\* rc = 0 on the calling thread (fire) or not at all, depending on the
\* transport library.
TearDown(c, fire) ==
    /\ tpc[c] = "idle"
    /\ loopOn' = loopOn \ {c}
    /\ cst' = [cst EXCEPT ![c] = "down"]
    /\ connected' = IF fire /\ cst[c] \in {"wait", "est"} THEN FALSE ELSE connected

\* ---- _start_reconnect_thread ----
\* the three early-return tests of _start_reconnect_thread
StartNeeded ==
    /\ ~stop_reconnect
    /\ ~connected
    /\ ~Alive(reconnect_thread)

\* identities a new Thread object can take: the unused ones and the one of a
\* finished thread (only self.reconnect_thread still refers to it)
FreeWorkers == {w \in Workers : pc[w] \in {"unused", "dead"}}

\* pc after threading.Thread(...).start(); a finished thread object that is
\* no longer referenced is dropped.
StartedPc(w, base) ==
    [t \in Threads |->
        IF t = w THEN "w_loop"
        ELSE IF t = reconnect_thread /\ base[t] = "dead" THEN "unused"
        ELSE base[t]]

\* ---- _do_connect, run by thread t (the caller or a worker) ----
DcReturn(t, success) ==
    /\ reconnect_lock' = reconnect_lock \ {t}
    /\ pc' = [pc EXCEPT ![t] =
                 IF t = Caller
                 THEN IF success THEN "connect_ret" ELSE "srt_check"
                 ELSE IF success THEN "w_success" ELSE "w_wait"]
    /\ wasConnected' = IF t = Caller /\ success THEN FALSE ELSE wasConnected

DcLock(t) ==
    /\ pc[t] = "dc_lock"
    /\ LockFree
    /\ reconnect_lock' = reconnect_lock \cup {t}
    /\ pc' = [pc EXCEPT ![t] = "dc_cleanup"]
    /\ UNCHANGED <<client, connected, reconnect_attempts, reconnect_thread,
                   stop_reconnect, wasConnected, again, cst, loopOn, tpc,
                   attemptNo, retry_interval, bridge, socket, restVars>>

\* "if self.client: loop_stop(); disconnect()" (exceptions swallowed)
DcCleanup(t) ==
    /\ pc[t] = "dc_cleanup"
    /\ IF client # None
       THEN \E fire \in BOOLEAN : TearDown(client, fire)
       ELSE UNCHANGED <<loopOn, cst, connected>>
    /\ pc' = [pc EXCEPT ![t] = "dc_create"]
    /\ UNCHANGED <<client, reconnect_attempts, reconnect_thread,
                   stop_reconnect, reconnect_lock, wasConnected, again, tpc,
                   attemptNo, retry_interval, bridge, socket, restVars>>

\* slots for a new transport client object: the unused ones, and the slot of
\* the object self.client refers to when nothing else (no network loop
\* thread) keeps that object
FreeClients ==
    {c \in Clients : cst[c] = "free" \/ (c = client /\ c \notin loopOn)}

\* "self.client = mqtt.Client(...)": a new, unconnected object
DcCreate(t) ==
    /\ pc[t] = "dc_create"
    /\ FreeClients # {}
    /\ LET c == Min(FreeClients)
       IN /\ client' = c
          /\ cst' = [x \in Clients |->
                        IF x = c THEN "down"
                        ELSE IF x = client /\ x \notin loopOn THEN "free"
                        ELSE cst[x]]
    /\ pc' = [pc EXCEPT ![t] = "dc_connect"]
    /\ UNCHANGED <<connected, reconnect_attempts, reconnect_thread,
                   stop_reconnect, reconnect_lock, wasConnected, again, loopOn,
                   tpc, attemptNo, retry_interval, bridge, socket, restVars>>

\* "self.client.connect(...); self.client.loop_start()".  connect() raises
\* (ok = FALSE) or returns; self.client may have been set to None by
\* disconnect() meanwhile, then the attribute access raises.  Every exception
\* ends in "return False".
DcConnect(t) ==
    /\ pc[t] = "dc_connect"
    /\ \E ok \in BOOLEAN :
        IF ok /\ client # None
        THEN /\ cst' = [cst EXCEPT ![client] = "wait"]
             /\ loopOn' = loopOn \cup {client}
             /\ pc' = [pc EXCEPT ![t] = "dc_check"]
             /\ UNCHANGED <<reconnect_lock, wasConnected>>
        ELSE /\ DcReturn(t, FALSE)
             /\ UNCHANGED <<cst, loopOn>>
    /\ UNCHANGED <<client, connected, reconnect_attempts, reconnect_thread,
                   stop_reconnect, again, tpc, attemptNo, retry_interval,
                   bridge, socket, restVars>>

\* after time.sleep(0.5): "if self.connected: reconnect_attempts = 0; return
\* True else: return False"
DcCheck(t) ==
    /\ pc[t] = "dc_check"
    /\ reconnect_attempts' = IF connected THEN 0 ELSE reconnect_attempts
    /\ DcReturn(t, connected)
    /\ UNCHANGED <<client, connected, reconnect_thread, stop_reconnect,
                   again, cst, loopOn, tpc, attemptNo, retry_interval,
                   bridge, socket, restVars>>

\* ---- connect(), on the caller's thread ----
Connect ==
    /\ pc[Caller] \in CallerRest
    /\ pc' = [pc EXCEPT ![Caller] = "dc_lock"]
    /\ wasConnected' = connected
    /\ UNCHANGED <<client, connected, reconnect_attempts, reconnect_thread,
                   stop_reconnect, reconnect_lock, again, cst, loopOn, tpc,
                   attemptNo, retry_interval, bridge, socket, restVars>>

\* "if not success: self._start_reconnect_thread()": the early returns
ConnectSrtCheck ==
    /\ pc[Caller] = "srt_check"
    /\ pc' = [pc EXCEPT ![Caller] = IF StartNeeded THEN "srt_start" ELSE "connect_false"]
    /\ wasConnected' = IF StartNeeded THEN wasConnected ELSE FALSE
    /\ UNCHANGED <<client, connected, reconnect_attempts, reconnect_thread,
                   stop_reconnect, reconnect_lock, again, cst, loopOn, tpc,
                   attemptNo, retry_interval, bridge, socket, restVars>>

\* "self.reconnect_thread = threading.Thread(...); .start()", then return
ConnectSrtStart ==
    /\ pc[Caller] = "srt_start"
    /\ FreeWorkers # {}
    /\ LET w == Min(FreeWorkers)
       IN /\ reconnect_thread' = w
          /\ pc' = StartedPc(w, [pc EXCEPT ![Caller] = "connect_false"])
          /\ attemptNo' = [attemptNo EXCEPT ![w] = 0]
          /\ retry_interval' = [retry_interval EXCEPT ![w] = "none"]
    /\ wasConnected' = FALSE
    /\ UNCHANGED <<client, connected, reconnect_attempts, stop_reconnect,
                   reconnect_lock, again, cst, loopOn, tpc, bridge, socket, restVars>>

\* ---- disconnect(), on the caller's thread ----
\* "self.stop_reconnect.set()"
Disconnect ==
    /\ pc[Caller] \in CallerRest
    /\ stop_reconnect' = TRUE
    /\ pc' = [pc EXCEPT ![Caller] = "d_join"]
    /\ again' = (pc[Caller] = "disconnect_ret")
    /\ UNCHANGED <<client, connected, reconnect_attempts, reconnect_thread,
                   reconnect_lock, wasConnected, cst, loopOn, tpc,
                   attemptNo, retry_interval, bridge, socket, restVars>>

\* The join timeout can expire only while the worker is inside a call that
\* can last that long: waiting for reconnect_lock, loop_stop() joining a
\* running network loop thread, the blocking connect(), the sleep after it.
JoinCanTimeOut(w) ==
    \/ pc[w] \in {"dc_connect", "dc_check"}
    \/ pc[w] = "dc_cleanup" /\ client \in loopOn
    \/ pc[w] = "dc_lock" /\ reconnect_lock # {}

\* "if self.reconnect_thread and is_alive(): join(timeout=2)": returns when
\* the worker has ended or when the timeout expires
DisconnectJoin ==
    /\ pc[Caller] = "d_join"
    /\ \/ ~Alive(reconnect_thread)
       \/ Alive(reconnect_thread) /\ JoinCanTimeOut(reconnect_thread)
    /\ pc' = [pc EXCEPT ![Caller] = "d_check"]
    /\ UNCHANGED <<client, connected, reconnect_attempts, reconnect_thread,
                   stop_reconnect, reconnect_lock, wasConnected, again, cst,
                   loopOn, tpc, attemptNo, retry_interval, bridge, socket, restVars>>

\* "if self.client:"
DisconnectCheck ==
    /\ pc[Caller] = "d_check"
    /\ pc' = [pc EXCEPT ![Caller] = IF client # None THEN "d_stop" ELSE "disconnect_ret"]
    /\ again' = IF client # None THEN again ELSE FALSE
    /\ UNCHANGED <<client, connected, reconnect_attempts, reconnect_thread,
                   stop_reconnect, reconnect_lock, wasConnected, cst,
                   loopOn, tpc, attemptNo, retry_interval, bridge, socket, restVars>>

\* "self.client.loop_stop(); self.client.disconnect()"
DisconnectStop ==
    /\ pc[Caller] = "d_stop"
    /\ \E fire \in BOOLEAN : TearDown(client, fire)
    /\ pc' = [pc EXCEPT ![Caller] = "d_none"]
    /\ UNCHANGED <<client, reconnect_attempts, reconnect_thread,
                   stop_reconnect, reconnect_lock, wasConnected, again, tpc,
                   attemptNo, retry_interval, bridge, socket, restVars>>

\* "self.client = None"
DisconnectNone ==
    /\ pc[Caller] = "d_none"
    /\ client' = None
    /\ cst' = [x \in Clients |->
                  IF x = client /\ x \notin loopOn THEN "free" ELSE cst[x]]
    /\ pc' = [pc EXCEPT ![Caller] = "d_flag"]
    /\ UNCHANGED <<connected, reconnect_attempts, reconnect_thread,
                   stop_reconnect, reconnect_lock, wasConnected, again, loopOn,
                   tpc, attemptNo, retry_interval, bridge, socket, restVars>>

\* "self.connected = False", return
DisconnectFlag ==
    /\ pc[Caller] = "d_flag"
    /\ connected' = FALSE
    /\ pc' = [pc EXCEPT ![Caller] = "disconnect_ret"]
    /\ again' = FALSE
    /\ UNCHANGED <<client, reconnect_attempts, reconnect_thread,
                   stop_reconnect, reconnect_lock, wasConnected, cst,
                   loopOn, tpc, attemptNo, retry_interval, bridge, socket, restVars>>

\* ---- _reconnect_loop, run by worker w ----
WorkerExitPc(w) ==
    [pc EXCEPT ![w] = IF reconnect_thread = w THEN "dead" ELSE "unused"]

\* "if self.reconnect_attempts <= self.retry_initial_attempts"
UsesShortInterval(n) == n <= retry_initial_attempts

\* one evaluation of the while condition; when it holds, the increment of
\* the counter and the choice of the interval
ReconnectLoopHead(w) ==
    /\ pc[w] = "w_loop"
    /\ IF stop_reconnect \/ connected
       THEN /\ pc' = WorkerExitPc(w)
            /\ attemptNo' = [attemptNo EXCEPT ![w] = 0]
            /\ retry_interval' = [retry_interval EXCEPT ![w] = "none"]
            /\ UNCHANGED reconnect_attempts
       ELSE /\ reconnect_attempts < MaxAttempts
            /\ attemptNo[w] < MaxAttempts
            /\ reconnect_attempts' = reconnect_attempts + 1
            /\ attemptNo' = [attemptNo EXCEPT ![w] = @ + 1]
            /\ retry_interval' = [retry_interval EXCEPT ![w] =
                  IF UsesShortInterval(reconnect_attempts + 1)
                  THEN "short" ELSE "long"]
            /\ pc' = [pc EXCEPT ![w] = "dc_lock"]
    /\ UNCHANGED <<client, connected, reconnect_thread, stop_reconnect,
                   reconnect_lock, wasConnected, again, cst, loopOn, tpc,
                   bridge, socket, restVars>>

\* "if success: return": the thread ends
ReconnectLoopReturn(w) ==
    /\ pc[w] = "w_success"
    /\ pc' = WorkerExitPc(w)
    /\ attemptNo' = [attemptNo EXCEPT ![w] = 0]
    /\ retry_interval' = [retry_interval EXCEPT ![w] = "none"]
    /\ UNCHANGED <<client, connected, reconnect_attempts, reconnect_thread,
                   stop_reconnect, reconnect_lock, wasConnected, again, cst,
                   loopOn, tpc, bridge, socket, restVars>>

\* a wait without timeout: it returns only when the event is set
ReconnectLoopWaitForStop(w) ==
    /\ pc[w] = "w_wait"
    /\ stop_reconnect
    /\ pc' = [pc EXCEPT ![w] = "w_loop"]
    /\ UNCHANGED <<client, connected, reconnect_attempts, reconnect_thread,
                   stop_reconnect, reconnect_lock, wasConnected, again, cst,
                   loopOn, tpc, attemptNo, retry_interval, bridge, socket, restVars>>

\* "self.stop_reconnect.wait(timeout=retry_interval)" returns: the event was
\* set or the interval has passed
ReconnectLoopWait(w) ==
    /\ pc[w] = "w_wait"
    /\ pc' = [pc EXCEPT ![w] = "w_loop"]
    /\ UNCHANGED <<client, connected, reconnect_attempts, reconnect_thread,
                   stop_reconnect, reconnect_lock, wasConnected, again, cst,
                   loopOn, tpc, attemptNo, retry_interval, bridge, socket, restVars>>

\* ---- callbacks, run by the network loop thread of transport client c ----
\* _on_connect(rc): CONNACK received on a connection that waits for it
OnConnect(c, accepted) ==
    /\ c \in loopOn
    /\ tpc[c] = "idle"
    /\ cst[c] = "wait"
    /\ IF accepted
       THEN /\ connected' = TRUE
            /\ reconnect_attempts' = 0
            /\ cst' = [cst EXCEPT ![c] = "est"]
       ELSE /\ connected' = FALSE
            /\ cst' = [cst EXCEPT ![c] = "down"]
            /\ UNCHANGED reconnect_attempts
    /\ UNCHANGED <<client, reconnect_thread, stop_reconnect, reconnect_lock,
                   pc, wasConnected, again, loopOn, tpc, attemptNo,
                   retry_interval, bridge, socket, restVars>>

\* _on_disconnect(rc) with rc != 0: the connection was lost.  Sets the flag
\* and runs the early returns of _start_reconnect_thread.
OnDisconnect(c) ==
    /\ c \in loopOn
    /\ tpc[c] = "idle"
    /\ cst[c] \in {"wait", "est"}
    /\ connected' = FALSE
    /\ cst' = [cst EXCEPT ![c] = "down"]
    /\ tpc' = [tpc EXCEPT ![c] =
                  IF ~stop_reconnect /\ ~Alive(reconnect_thread)
                  THEN "srt_start" ELSE "idle"]
    /\ UNCHANGED <<client, reconnect_attempts, reconnect_thread,
                   stop_reconnect, reconnect_lock, pc, wasConnected, again,
                   loopOn, attemptNo, retry_interval, bridge, socket, restVars>>

\* _start_reconnect_thread on the network loop thread: create and start
OnDisconnectSrtStart(c) ==
    /\ tpc[c] = "srt_start"
    /\ FreeWorkers # {}
    /\ LET w == Min(FreeWorkers)
       IN /\ reconnect_thread' = w
          /\ pc' = StartedPc(w, pc)
          /\ attemptNo' = [attemptNo EXCEPT ![w] = 0]
          /\ retry_interval' = [retry_interval EXCEPT ![w] = "none"]
    /\ tpc' = [tpc EXCEPT ![c] = "idle"]
    /\ UNCHANGED <<client, connected, reconnect_attempts, stop_reconnect,
                   reconnect_lock, wasConnected, again, cst, loopOn, bridge,
                   socket, restVars>>

\* ---- MQTTOutput.send (loxprox/outputs/mqtt.py) ----
topic_prefix == <<"l", "o", "x", "o", "n", "e">>

\* the places send looks for the packet text, in its order
HasRawPacketData(data) ==
    \/ Has(data, "raw_packet")
    \/ Has(data, "_raw_packet")
    \/ Has(data, "raw_data_string")
    \/ Has(data, "raw_value")

\* the local raw_packet: the stored text, or the reconstruction
\* f"{timestamp};{source};{data_string}"
RawPacketOf(data) ==
    IF Has(data, "raw_packet") THEN data.raw_packet
    ELSE IF Has(data, "_raw_packet") THEN data["_raw_packet"]
    ELSE LET timestamp == Get(data, "timestamp", <<>>)
             source == Get(data, "source", <<>>)
             data_string ==
                 IF Has(data, "raw_data_string") THEN data.raw_data_string
                 ELSE Get(data, "device_type", <<>>) \o Get(data, "device_id", <<>>)
                      \o <<".">> \o IntText(data.raw_value)
         IN timestamp \o <<";">> \o source \o <<";">> \o data_string

\* type_map.get(device_type, device_type)
TopicName(device_type) ==
    IF device_type = ph THEN <<"h", "u", "e">>
    ELSE IF device_type = pm THEN <<"p", "o", "w", "e", "r", "m", "e", "t", "e", "r">>
    ELSE device_type

\* f"{self.topic_prefix}/type/{topic_name}"
TopicOf(data) ==
    topic_prefix \o <<"/", "t", "y", "p", "e", "/">> \o TopicName(Get(data, "device_type", <<"u", "n", "k", "n", "o", "w", "n">>))

MqttMessage(data) == [topic |-> TopicOf(data), payload |-> RawPacketOf(data)]

\* the positions of send where no call is in progress: no call yet, or the
\* way the last call ended
SendRest == {"idle", "ret_true", "ret_false", "raised"}

\* "except Exception as e: ... return False" around the body of send
SendCatchesNothing == FALSE
SendCatches == TRUE

\* what client.publish can do on transport client c: return rc = SUCCESS
\* (only with a socket), return another rc, or raise
PublishOutcomes(c) ==
    IF cst[c] \in {"wait", "est"}
    THEN {"success", "error", "raise"}
    ELSE {"error", "raise"}

\* send(data) up to the publish: "if not self.client or not self.connected:
\* return False", then the choice of raw_packet and topic
SendCheckBody(data) ==
    /\ spc \in SendRest
    /\ published' = NoData
    /\ IF client = None \/ ~connected \/ ~HasRawPacketData(data)
       THEN /\ spc' = "ret_false"
            /\ msg' = NoData
       ELSE /\ spc' = "s_publish"
            /\ msg' = MqttMessage(data)

\* "result = self.client.publish(...)" and the return.  self.client can be
\* None by now (AttributeError).
SendPublishBody ==
    /\ spc = "s_publish"
    /\ msg' = NoData
    /\ IF client = None
       THEN /\ spc' = IF SendCatches THEN "ret_false" ELSE "raised"
            /\ UNCHANGED published
       ELSE /\ published' = msg
            /\ \E rc \in PublishOutcomes(client) :
                 spc' = IF rc = "success" THEN "ret_true"
                        ELSE IF rc = "error" \/ SendCatches THEN "ret_false"
                        ELSE "raised"

\* data a caller of the sink can pass: a reading as the handlers build it,
\* and the same with the packet text stored in it
SendInputs ==
    LET reading == ProcessData(ParsePacket(<<"t", ";", "s", ";", "p", "h", "9", ".", "1", "0", "0">>))
    IN {reading, [x \in DOMAIN reading \cup {"raw_packet"} |->
                     IF x = "raw_packet" THEN <<"t", ";", "s", ";", "p", "h", "9", ".", "1", "0", "0">> ELSE reading[x]]}

\* send called on a thread of its own
SendCheck ==
    /\ \E data \in SendInputs : SendCheckBody(data)
    /\ UNCHANGED <<mqttVars, bridge, socket, emitted, routeVars, mpc, packetVars>>

SendPublish ==
    /\ SendPublishBody
    /\ UNCHANGED <<mqttVars, bridge, socket, emitted, routeVars, mpc, packetVars>>

\* ---- TelegrafOutput._format_line_protocol (loxprox/outputs/telegraf.py) ----
\* A field of the line: name=value, with the suffix "i" for the fields
\* written as integers and quotes for the mode.
Field(name, value, form) == [name |-> name, value |-> value, form |-> form]

PowerFieldNames ==
    <<<<<<"p", "f">>, <<"p", "o", "w", "e", "r", "_", "k", "w">>>>, <<<<"m", "r", "c">>, <<"e", "n", "e", "r", "g", "y", "_", "c", "o", "n", "s", "u", "m", "e", "d", "_", "k", "w", "h">>>>,
      <<<<"m", "r", "d">>, <<"e", "n", "e", "r", "g", "y", "_", "d", "e", "l", "i", "v", "e", "r", "e", "d", "_", "k", "w", "h">>>>, <<<<"v", "1">>, <<"v", "o", "l", "t", "a", "g", "e", "_", "l", "1">>>>,
      <<<<"v", "2">>, <<"v", "o", "l", "t", "a", "g", "e", "_", "l", "2">>>>, <<<<"v", "3">>, <<"v", "o", "l", "t", "a", "g", "e", "_", "l", "3">>>>,
      <<<<"i", "1">>, <<"c", "u", "r", "r", "e", "n", "t", "_", "l", "1">>>>, <<<<"i", "2">>, <<"c", "u", "r", "r", "e", "n", "t", "_", "l", "2">>>>,
      <<<<"i", "3">>, <<"c", "u", "r", "r", "e", "n", "t", "_", "l", "3">>>>>>

RECURSIVE PowerFields(_, _)
PowerFields(value, names) ==
    IF names = <<>> THEN <<>>
    ELSE (IF Has(value, names[1][1])
          THEN <<Field(names[1][2], value[names[1][1]], "plain")>>
          ELSE <<>>) \o PowerFields(value, Tail(names))

\* "for k, v in value.items()": one field per item (numbers in the model)
RECURSIVE GenericFields(_, _)
GenericFields(value, keys) ==
    IF keys = {} THEN <<>>
    ELSE LET k == CHOOSE k \in keys : TRUE
         IN <<Field(k, value[k], "plain")>> \o GenericFields(value, keys \ {k})

Max3(a, b, c) ==
    IF a >= b /\ a >= c THEN a ELSE IF b >= c THEN b ELSE c

LineFields(data) ==
    LET value == data.value
    IN IF data.device_type = ph
       THEN (IF Has(value, k_mode) /\ value[k_mode] = m_rgb
             THEN <<Field(k_r, Get(value, k_r, 0), "i"),
                    Field(k_g, Get(value, k_g, 0), "i"),
                    Field(k_b, Get(value, k_b, 0), "i"),
                    Field(k_brightness,
                          Max3(Get(value, k_r, 0), Get(value, k_g, 0),
                               Get(value, k_b, 0)), "i")>>
             ELSE IF Has(value, k_mode) /\ value[k_mode] = m_cct
             THEN <<Field(k_brightness, Get(value, k_brightness, 0), "i"),
                    Field(k_kelvin, Get(value, k_kelvin, 3000), "i")>>
             ELSE <<>>)
            \o <<Field(k_mode, Get(value, k_mode, <<"N", "o", "n", "e">>), "quoted")>>
       ELSE IF data.device_type = pm
       THEN PowerFields(value, PowerFieldNames)
       ELSE GenericFields(value, DOMAIN value)

\* the line, without its timestamp (the time of the call), or NoData:
\* a missing key or an empty field list
FormatLineProtocol(data) ==
    IF ~Has(data, "device_type") \/ ~Has(data, "device_id") \/ ~Has(data, "value")
    THEN NoData
    ELSE IF LineFields(data) = <<>> THEN NoData
    ELSE [measurement |-> <<"l", "o", "x", "o", "n", "e">>,
          tags |-> <<data.device_type, data.device_id,
                     Get(data, "source", <<"u", "n", "k", "n", "o", "w", "n">>)>>,
          fields |-> LineFields(data)]

\* ---- HueOutput and TelegrafOutput, called on the caller's thread ----
\* "self.bridge = Bridge(...)": raises (ok = FALSE) or assigns
HueConnect ==
    /\ pc[Caller] \in CallerRest
    /\ \E ok \in BOOLEAN : bridge' = IF ok THEN TRUE ELSE bridge
    /\ UNCHANGED <<mqttVars, socket, restVars>>

HueDisconnect ==
    /\ pc[Caller] \in CallerRest
    /\ bridge' = FALSE
    /\ UNCHANGED <<mqttVars, socket, restVars>>

TelegrafConnect ==
    /\ pc[Caller] \in CallerRest
    /\ \E ok \in BOOLEAN : socket' = IF ok THEN TRUE ELSE socket
    /\ UNCHANGED <<mqttVars, bridge, restVars>>

\* "if self.socket: close(); self.socket = None"
TelegrafDisconnect ==
    /\ pc[Caller] \in CallerRest
    /\ socket' = IF socket THEN FALSE ELSE socket
    /\ UNCHANGED <<mqttVars, bridge, restVars>>

\* ---- OutputManager.route_data (loxprox/output_manager.py) ----
\* names an outputs list can hold: the three sink types of OUTPUT_CLASSES, a
\* type added with register_output_type ("custom"), and a name that is no
\* output ("other")
SinkNames == {"hue", "telegraf", "mqtt", "custom"}
OutputNames == SinkNames \cup {"other"}

\* "self.routing.get(device_type, {}).get('outputs', [])"
TargetOutputs(data) ==
    IF Has(data, "device_type") /\ data.device_type \in DOMAIN routing
    THEN routing[data.device_type]
    ELSE <<>>

\* "results[output_name] = ..." and the next iteration; sendLog keeps the
\* calls of send with the way each ended
\* "results[output_name] = success": a later occurrence of a name replaces
\* the entry of an earlier one
RouteStoreFirst(res, output_name, success) ==
    IF Has(res, output_name) THEN res ELSE Put(res, output_name, success)
RouteStore(res, output_name, success) == Put(res, output_name, success)

\* the try statement is inside the loop: after every outcome of send the
\* loop goes on with the next name (idx of n names)
RouteAdvanceTryOutside(idx, n, out) == IF out = "raised" THEN n + 1 ELSE idx + 1
RouteAdvance(idx, n, out) == idx + 1

RouteRecord(output_name, invoked, out) ==
    /\ results' = RouteStore(results, output_name, out = "true")
    /\ sendLog' = IF invoked
                  THEN Append(sendLog, [name |-> output_name, out |-> out])
                  ELSE sendLog
    /\ rIdx' = RouteAdvance(rIdx, Len(TargetOutputs(processed_data)), out)

\* the call of route_data(processed_data) up to the loop
RouteStart ==
    /\ stage = "handled"
    /\ results' = EmptyDict
    /\ sendLog' = <<>>
    /\ IF ~Has(processed_data, "device_type") \/ processed_data.device_type = <<>>
          \/ TargetOutputs(processed_data) = <<>>
       THEN /\ stage' = "routed"
            /\ rIdx' = 0
       ELSE /\ stage' = "route"
            /\ rIdx' = 1
    /\ UNCHANGED <<mqttVars, bridge, socket, sendVars, emitted, routing, config,
                   outputs, mpc, prev, packet_str, parsed_data, processed_data>>

\* the name the loop is at
AtOutput(output_name) ==
    /\ stage = "route"
    /\ rIdx <= Len(TargetOutputs(processed_data))
    /\ TargetOutputs(processed_data)[rIdx] = output_name

\* "if output_name not in self.outputs: results[output_name] = False"
RouteUnavailable ==
    /\ \E output_name \in OutputNames :
        /\ AtOutput(output_name)
        /\ output_name \notin outputs
        /\ RouteRecord(output_name, FALSE, "false")
    /\ UNCHANGED <<mqttVars, bridge, socket, sendVars, emitted, routing, config,
                   outputs, mpc, packetVars>>

\* HueOutput.send: every exception ends in "return False"; set_light can
\* raise (ok = FALSE)
HueSendOutcomes(data) ==
    IF ~bridge THEN {"false"}
    ELSE IF ~Has(data, "device_type") \/ data.device_type # ph THEN {"true"}
    ELSE IF /\ Has(data, "value")
            /\ Has(data.value, k_mode)
            /\ data.value[k_mode] \in {m_rgb, m_cct}
         THEN {"true", "false"}
         ELSE {"false"}

\* a send that writes to the value mapping it was given: the mode of an rgb
\* reading is overwritten
RouteSendHueWritesValue ==
    /\ AtOutput("hue")
    /\ "hue" \in outputs
    /\ \E out \in HueSendOutcomes(processed_data) : RouteRecord("hue", TRUE, out)
    /\ processed_data' =
          IF /\ Has(processed_data, "value")
             /\ Has(processed_data.value, k_mode)
             /\ processed_data.value[k_mode] = m_rgb
          THEN [processed_data EXCEPT !.value = Put(@, k_mode, m_cct)]
          ELSE processed_data
    /\ UNCHANGED <<mqttVars, bridge, socket, sendVars, emitted, routing, config,
                   outputs, mpc, stage, prev, packet_str, parsed_data>>

RouteSendHue ==
    /\ AtOutput("hue")
    /\ "hue" \in outputs
    /\ \E out \in HueSendOutcomes(processed_data) : RouteRecord("hue", TRUE, out)
    /\ UNCHANGED <<mqttVars, bridge, socket, sendVars, emitted, routing, config,
                   outputs, mpc, packetVars>>

\* TelegrafOutput.send: no socket, no line, or sendto, which can raise
RouteSendTelegraf ==
    /\ AtOutput("telegraf")
    /\ "telegraf" \in outputs
    /\ IF ~socket \/ FormatLineProtocol(processed_data) = NoData
       THEN /\ RouteRecord("telegraf", TRUE, "false")
            /\ UNCHANGED emitted
       ELSE /\ emitted' = FormatLineProtocol(processed_data)
            /\ \E ok \in BOOLEAN :
                 RouteRecord("telegraf", TRUE, IF ok THEN "true" ELSE "false")
    /\ UNCHANGED <<mqttVars, bridge, socket, sendVars, routing, config, outputs, mpc,
                   packetVars>>

\* send of a registered extension: returns a bool or raises; "except
\* Exception" of route_data records False
RouteSendCustom ==
    /\ AtOutput("custom")
    /\ "custom" \in outputs
    /\ \E out \in {"true", "false", "raised"} : RouteRecord("custom", TRUE, out)
    /\ UNCHANGED <<mqttVars, bridge, socket, sendVars, emitted, routing, config,
                   outputs, mpc, packetVars>>

\* "success = output.send(data)" on the MQTT sink: the call proceeds on
\* this thread while the sink's other threads run
RouteSendMqtt ==
    /\ AtOutput("mqtt")
    /\ "mqtt" \in outputs
    /\ SendCheckBody(processed_data)
    /\ stage' = "send_mqtt"
    /\ UNCHANGED <<mqttVars, bridge, socket, emitted, routeVars, mpc,
                   prev, packet_str, parsed_data, processed_data>>

\* the MQTT send has ended: "results[output_name] = success", or the except
\* clause when it raised
RouteCollectMqtt ==
    /\ stage = "send_mqtt"
    /\ spc \in {"ret_true", "ret_false", "raised"}
    /\ RouteRecord("mqtt", TRUE,
                   IF spc = "ret_true" THEN "true"
                   ELSE IF spc = "ret_false" THEN "false" ELSE "raised")
    /\ stage' = "route"
    /\ UNCHANGED <<mqttVars, bridge, socket, sendVars, emitted, routing, config,
                   outputs, mpc, prev, packet_str, parsed_data, processed_data>>

\* "return results" after the last name
RouteReturn ==
    /\ stage = "route"
    /\ rIdx > Len(TargetOutputs(processed_data))
    /\ stage' = "routed"
    /\ UNCHANGED <<mqttVars, bridge, socket, sendVars, emitted, routeVars,
                   mpc, prev, packet_str, parsed_data, processed_data>>

\* ---- LoxproxServer.process_packet (loxprox/main.py) ----
\* positions where no packet is being processed: before the first one,
\* after a packet that was dropped, after a packet that was routed
StageRest == {"idle", "dropped", "done"}

\* the received bytes are text; the character "?" stands for a byte
\* sequence that is not valid UTF-8
Utf8Valid(data) == \A i \in 1..Len(data) : data[i] # "?"

\* "except Exception as e" around the body of process_packet
ProcessPacketCatchesNothing == FALSE
ProcessPacketCatches == TRUE

\* the data part of the sample packets
SampleData ==
    {<<"p", "h", "9", ".", "1", "0", "0", "0", "5", "0", "0", "2", "5">>, <<"p", "h", "9", ".", "0">>, <<"p", "h", "9", ".", "1", "0", "0", "1", "0", "0", "1", "0", "0">>, <<"p", "h", "9", ".", "9", "9", "9">>,
     <<"p", "h", "9", ".", "2", "0", "1", "0", "0", "3", "0", "0", "0">>, <<"p", "h", "9", ".", "2", "0", "0", "0", "0", "2", "7", "0", "0">>, <<"p", "h", "9", ".", "1", "5", "0", "0", "0", "0", "0", "0", "0">>, <<"p", "h", "9", ".", "1", "0", "0", "1", "0", "0", "1", "0", "1">>,
     <<"p", "h", "9", ".", "-", "5">>, <<"p", "h", "9", ".", "x">>, <<"p", "h", "9">>, <<"a", "b", "c", ".", "1", "2", "3">>, <<"1", "2", "3", ".", "4", "5", "6">>, <<"x", "x", "0", ".", "5">>,
     <<"p", "m", "1", ".", "1", "2", "3", "4", "5", "6", "7", "8", "9">>, <<"p", "m", "1", ".", "-", "7">>, <<"p", "m", "1", ".", "p", "f", ":", "5", ",", "m", "r", "c", ":", "3", "4", "1", "6", "9">>,
     <<"p", "m", "1", ".", "p", "f", ":", "5", ".", "2", "2", "0", ",", "m", "r", "c", ":", "3", "4", "1", "6", "9", ",", "v", "1", ":", "2", "4", "1", ".", "0">>, <<"p", "m", "1", ".", "m", "r", "c", ":", "3">>, <<"p", "m", "1", ".", "p", "f", ":", "x">>,
     <<"p", "m", "1", ".", "p", "f", ":", "5", ",", "z", "z", ",", "v", "1", ":", "x">>, <<"{">>,
     <<"{ph_rgb}">>, <<"{ph_over}">>, <<"{ph_blink}">>, <<"{ph_novalue}">>,
     <<"{xx}">>, <<"{noid}">>, <<"{pm_fields}">>}

\* what can follow the data: nothing, a newline, a fourth field
SampleTails == {<<>>, <<"\n">>, <<";", "x">>}

\* the packets the server receives in the model
Packets ==
    {<<"t", ";", "s", ";">> \o d \o tail : d \in SampleData, tail \in SampleTails}
    \cup {<<"t", ";", "s">>, <<"i", "n", "v", "a", "l", "i", "d">>, <<>>, <<"t", ";", "?", ";", "p", "h", "9", ".", "0">>}

\* "packet_str = data.decode('utf-8')"; UnicodeDecodeError ends the call in
\* the except clause
ReceivePacket ==
    /\ stage \in StageRest
    /\ \E data \in Packets :
        IF Utf8Valid(data)
        THEN /\ packet_str' = data
             /\ stage' = "decoded"
        ELSE /\ packet_str' = <<>>
             /\ stage' = IF ProcessPacketCatches THEN "dropped" ELSE "raised"
    /\ prev' = stage
    /\ parsed_data' = NoData
    /\ processed_data' = NoData
    /\ rIdx' = 0
    /\ results' = EmptyDict
    /\ sendLog' = <<>>
    /\ UNCHANGED <<mqttVars, bridge, socket, sendVars, emitted, routing, config,
                   outputs, mpc>>

\* "parsed_data = self.parser.parse_packet(packet_str); if not parsed_data:
\* return"
ParseStep ==
    /\ stage = "decoded"
    /\ parsed_data' = ParsePacket(packet_str)
    /\ stage' = IF ParsePacket(packet_str) = NoData THEN "dropped" ELSE "parsed"
    /\ UNCHANGED <<mqttVars, bridge, socket, sendVars, emitted, routeVars,
                   mpc, prev, packet_str, processed_data>>

\* "processed_data = self.handler_manager.process_data(parsed_data); if not
\* processed_data: return"
HandleStep ==
    /\ stage = "parsed"
    /\ processed_data' = ProcessData(parsed_data)
    /\ stage' = IF ProcessData(parsed_data) = NoData THEN "dropped" ELSE "handled"
    /\ UNCHANGED <<mqttVars, bridge, socket, sendVars, emitted, routeVars,
                   mpc, prev, packet_str, parsed_data>>

\* the counts are logged and process_packet returns
ProcessPacketReturn ==
    /\ stage = "routed"
    /\ stage' = "done"
    /\ UNCHANGED <<mqttVars, bridge, socket, sendVars, emitted, routeVars,
                   mpc, prev, packet_str, parsed_data, processed_data>>

\* ---- OutputManager._initialize_outputs and shutdown ----
\* The configuration of the model enables hue, telegraf and mqtt, in this
\* order.  "if output_instance.connect(): self.outputs[name] = instance"
InitializeHue ==
    /\ mpc = "new"
    /\ \E ok \in BOOLEAN :
        /\ bridge' = ok
        /\ outputs' = IF ok THEN outputs \cup {"hue"} ELSE outputs
    /\ mpc' = "init_telegraf"
    /\ UNCHANGED <<mqttVars, socket, sendVars, emitted, routing, config, rIdx,
                   results, sendLog, packetVars>>

InitializeTelegraf ==
    /\ mpc = "init_telegraf"
    /\ \E ok \in BOOLEAN :
        /\ socket' = ok
        /\ outputs' = IF ok THEN outputs \cup {"telegraf"} ELSE outputs
    /\ mpc' = "init_mqtt"
    /\ UNCHANGED <<mqttVars, bridge, sendVars, emitted, routing, config, rIdx,
                   results, sendLog, packetVars>>

\* output_instance.connect() of the MQTT sink is called
InitializeMqttCall ==
    /\ mpc = "init_mqtt"
    /\ pc[Caller] = "idle"
    /\ Connect

\* the sink is stored whatever connect() returned
InitializeMqttStoreAlways ==
    /\ mpc = "init_mqtt"
    /\ pc[Caller] \in {"connect_ret", "connect_false"}
    /\ outputs' = outputs \cup {"mqtt"}
    /\ mpc' = "running"
    /\ UNCHANGED <<mqttVars, bridge, socket, sendVars, emitted, routing, config, rIdx,
                   results, sendLog, packetVars>>

\* connect() has returned: the sink is stored when it returned True
InitializeMqttStore ==
    /\ mpc = "init_mqtt"
    /\ pc[Caller] \in {"connect_ret", "connect_false"}
    /\ outputs' = IF pc[Caller] = "connect_ret" THEN outputs \cup {"mqtt"} ELSE outputs
    /\ mpc' = "running"
    /\ UNCHANGED <<mqttVars, bridge, socket, sendVars, emitted, routing, config, rIdx,
                   results, sendLog, packetVars>>

\* the readings dispatched while the sinks' threads run: what the handlers
\* make of a light packet and of a power meter packet
ManagerReadings ==
    {ProcessData(ParsePacket(<<"t", ";", "s", ";", "p", "h", "9", ".", "1", "0", "0">>)),
     ProcessData(ParsePacket(<<"t", ";", "s", ";", "p", "m", "1", ".", "p", "f", ":", "5">>))}

\* process_packet has a reading for route_data
Dispatch ==
    /\ mpc = "running"
    /\ stage \in StageRest
    /\ \E data \in ManagerReadings : processed_data' = data
    /\ stage' = "handled"
    /\ prev' = stage
    /\ rIdx' = 0
    /\ results' = EmptyDict
    /\ sendLog' = <<>>
    /\ UNCHANGED <<mqttVars, bridge, socket, sendVars, emitted, routing, config,
                   outputs, mpc, packet_str, parsed_data>>

\* shutdown(): disconnect() of the stored sinks in the order they were
\* stored; HueOutput.disconnect and TelegrafOutput.disconnect are one step
ShutdownStart ==
    /\ mpc = "running"
    /\ stage \in StageRest
    /\ bridge' = IF "hue" \in outputs THEN FALSE ELSE bridge
    /\ socket' = IF "telegraf" \in outputs THEN FALSE ELSE socket
    /\ mpc' = "shut_mqtt"
    /\ UNCHANGED <<mqttVars, sendVars, emitted, routeVars, packetVars>>

\* output.disconnect() of the MQTT sink is called
ShutdownMqttCall ==
    /\ mpc = "shut_mqtt"
    /\ "mqtt" \in outputs
    /\ pc[Caller] # "disconnect_ret"
    /\ Disconnect

\* "self.outputs.clear()"
ShutdownClear ==
    /\ mpc = "shut_mqtt"
    /\ "mqtt" \in outputs => pc[Caller] = "disconnect_ret"
    /\ outputs' = {}
    /\ mpc' = "stopped"
    /\ UNCHANGED <<mqttVars, bridge, socket, sendVars, emitted, routing, config, rIdx,
                   results, sendLog, packetVars>>

\* ---- specification ----
DoConnectStep ==
    \E t \in Threads :
        DcLock(t) \/ DcCleanup(t) \/ DcCreate(t) \/ DcConnect(t) \/ DcCheck(t)

CallerStep ==
    \/ Connect \/ ConnectSrtCheck \/ ConnectSrtStart
    \/ Disconnect \/ DisconnectJoin \/ DisconnectCheck
    \/ DisconnectStop \/ DisconnectNone \/ DisconnectFlag

WorkerStep ==
    \E w \in Workers :
        ReconnectLoopHead(w) \/ ReconnectLoopReturn(w) \/ ReconnectLoopWait(w)

TransportStep ==
    \E c \in Clients :
        \/ \E accepted \in BOOLEAN : OnConnect(c, accepted)
        \/ OnDisconnect(c)
        \/ OnDisconnectSrtStart(c)

SinkStep ==
    HueConnect \/ HueDisconnect \/ TelegrafConnect \/ TelegrafDisconnect

\* one MQTTOutput instance with its threads
Next ==
    \/ DoConnectStep
    \/ CallerStep
    \/ WorkerStep
    \/ TransportStep

Spec == Init /\ [][Next]_vars

\* the three sinks, as the caller's thread drives them
NextAllSinks ==
    \/ Next
    \/ SinkStep

SpecAllSinks == Init /\ [][NextAllSinks]_vars


\* the MQTT sink with a thread that calls send
NextSend ==
    \/ Next
    \/ SendCheck
    \/ SendPublish

SpecSend == Init /\ [][NextSend]_vars

\* ---- the packet path with the sinks at rest ----
\* routing tables of the model
RoutingTables ==
    {(ph :> <<"hue", "telegraf", "mqtt">>) @@ (pm :> <<"telegraf", "mqtt">>),
     (ph :> <<"mqtt", "hue", "mqtt", "custom">>) @@ (pm :> <<>>),
     (ph :> <<"custom", "other", "telegraf">>),
     (ph :> <<"custom", "custom">>) @@ (pm :> <<"custom", "hue">>)}

\* the MQTT sink after a connect() that returned True
MqttConnected ==
    /\ client = 1
    /\ connected = TRUE
    /\ reconnect_attempts = 0
    /\ reconnect_thread = None
    /\ pc = [t \in Threads |-> IF t = Caller THEN "connect_ret" ELSE "unused"]
    /\ cst = [c \in Clients |-> IF c = 1 THEN "est" ELSE "free"]
    /\ loopOn = {1}
    /\ attemptNo = [w \in Workers |-> 0]
    /\ retry_interval = [w \in Workers |-> "none"]

\* the same sink after the connection was lost and the first attempt of the
\* reconnection worker failed: the worker waits for its next attempt
MqttReconnecting ==
    /\ client = 1
    /\ connected = FALSE
    /\ reconnect_attempts = 1
    /\ reconnect_thread = 1
    /\ pc = [t \in Threads |->
                IF t = Caller THEN "connect_ret"
                ELSE IF t = 1 THEN "w_wait" ELSE "unused"]
    /\ cst = [c \in Clients |-> IF c = 1 THEN "down" ELSE "free"]
    /\ loopOn = {}
    /\ attemptNo = [w \in Workers |-> IF w = 1 THEN 1 ELSE 0]
    /\ retry_interval = [w \in Workers |-> IF w = 1 THEN "short" ELSE "none"]

\* the server after OutputManager initialization: the stored sinks are the
\* ones whose connect() returned True
InitDispatch ==
    /\ InitCalls
    /\ routing \in RoutingTables
    /\ config = NoData
    /\ outputs \in SUBSET SinkNames
    /\ mpc = "running"
    /\ bridge = ("hue" \in outputs)
    /\ socket = ("telegraf" \in outputs)
    /\ stop_reconnect = FALSE
    /\ reconnect_lock = {}
    /\ wasConnected = FALSE
    /\ again = FALSE
    /\ tpc = [c \in Clients |-> "idle"]
    /\ IF "mqtt" \in outputs
       THEN MqttConnected \/ MqttReconnecting
       ELSE /\ client = None
            /\ connected = FALSE
            /\ reconnect_attempts = 0
            /\ reconnect_thread = None
            /\ pc = [t \in Threads |-> IF t = Caller THEN "idle" ELSE "unused"]
            /\ cst = [c \in Clients |-> "free"]
            /\ loopOn = {}
            /\ attemptNo = [w \in Workers |-> 0]
            /\ retry_interval = [w \in Workers |-> "none"]

\* process_packet for one packet after the other.  SendPublish is not among
\* the steps: send returns at its check for every reading the handlers build.
NextDispatch ==
    \/ ReceivePacket
    \/ ParseStep
    \/ HandleStep
    \/ RouteStart
    \/ RouteUnavailable
    \/ RouteSendHue
    \/ RouteSendTelegraf
    \/ RouteSendCustom
    \/ RouteSendMqtt
    \/ RouteCollectMqtt
    \/ RouteReturn
    \/ ProcessPacketReturn

SpecDispatch == InitDispatch /\ [][NextDispatch]_vars

\* ---- the OutputManager with the threads of its MQTT sink ----
ManagerRoutings ==
    {(ph :> <<"mqtt", "telegraf">>) @@ (pm :> <<"hue", "mqtt">>)}

InitManager ==
    /\ InitSinks
    /\ InitCalls
    /\ routing \in ManagerRoutings
    /\ config = NoData
    /\ outputs = {}
    /\ mpc = "new"

NextManager ==
    \/ InitializeHue
    \/ InitializeTelegraf
    \/ InitializeMqttCall
    \/ InitializeMqttStore
    \/ DoConnectStep
    \/ ConnectSrtCheck
    \/ ConnectSrtStart
    \/ WorkerStep
    \/ TransportStep
    \/ Dispatch
    \/ RouteStart
    \/ RouteUnavailable
    \/ RouteSendHue
    \/ RouteSendTelegraf
    \/ RouteSendMqtt
    \/ RouteCollectMqtt
    \/ RouteReturn
    \/ ProcessPacketReturn
    \/ ShutdownStart
    \/ ShutdownMqttCall
    \/ DisconnectJoin
    \/ DisconnectCheck
    \/ DisconnectStop
    \/ DisconnectNone
    \/ DisconnectFlag
    \/ ShutdownClear

SpecManager == InitManager /\ [][NextManager]_vars

\* ---- the decode and handler stages on light payloads ----
\* values of a three-digit group of an RGB payload: percentages and values
\* above 100
GroupSamples == {0, 1, 25, 50, 99, 100, 101, 999}

\* integer payloads of light packets: the RGB range [0, 100100100] by
\* groups, the CCT range [200002700, 201006500] by brightness and kelvin,
\* and values outside both ranges
RgbPayloads ==
    {p \in {b * 1000000 + g * 1000 + r :
               b \in {0, 25, 100}, g \in GroupSamples, r \in GroupSamples} :
        p <= 100100100}
CctPayloads ==
    {200000000 + brightness * 10000 + kelvin :
        brightness \in {0, 1, 50, 100}, kelvin \in {2700, 3000, 6500}}
OtherPayloads ==
    {0 - 1, 0 - 100050025, 100100101, 150000000, 200002699, 201006501,
     300000000}
LightPayloads == RgbPayloads \cup CctPayloads \cup OtherPayloads

\* "ph9.<payload>" packets, and light packets whose payload is no integer
LightPackets ==
    {<<"2", "0", "2", "5", "-", "0", "7", "-", "1", "8", " ", "1", "2", ":", "0", "3", ":", "0", "6", ";", "u", "d", "p", "l", "i", "g", "h", "t", ";", "p", "h", "9", ".">> \o IntText(p) : p \in LightPayloads}
    \cup {<<"t", ";", "s", ";", "p", "h", "9", ".">>, <<"t", ";", "s", ";", "p", "h", "9", ".", "-">>, <<"t", ";", "s", ";", "p", "h", "9", ".", "+">>, <<"t", ";", "s", ";", "p", "h", "9", ".", "1", "x">>}

\* process_packet is called with a light packet
ReceiveLightPacket ==
    /\ stage \in StageRest
    /\ \E data \in LightPackets :
        /\ packet_str' = data
        /\ stage' = "decoded"
    /\ prev' = stage
    /\ parsed_data' = NoData
    /\ processed_data' = NoData
    /\ rIdx' = 0
    /\ results' = EmptyDict
    /\ sendLog' = <<>>
    /\ UNCHANGED <<mqttVars, bridge, socket, sendVars, emitted, routing, config,
                   outputs, mpc>>

\* a server without routing entries: every reading ends with zero sends
InitDecode ==
    /\ InitSinks
    /\ InitCalls
    /\ routing = EmptyDict
    /\ config = NoData
    /\ outputs = {}
    /\ mpc = "running"

NextDecode ==
    \/ ReceiveLightPacket
    \/ ParseStep
    \/ HandleStep
    \/ RouteStart
    \/ ProcessPacketReturn

SpecDecode == InitDecode /\ [][NextDecode]_vars

\* ---- the handlers called on their own ----
\* value mappings a handler can be given: rgb and cct values in and out of
\* range, with a missing field, other modes, no mode, and power meter values
\* with and without raw_value
RgbValues ==
    {(k_mode :> m_rgb) @@ (k_r :> r) @@ (k_g :> g) @@ (k_b :> b) :
        r \in {0 - 50, 0, 128, 255, 300}, g \in {0 - 50, 128, 300}, b \in {0, 128, 256}}
    \cup {(k_mode :> m_rgb) @@ (k_g :> 300)}
CctValues ==
    {(k_mode :> m_cct) @@ (k_brightness :> brightness) @@ (k_kelvin :> kelvin) :
        brightness \in {0 - 1, 0, 50, 100, 150},
        kelvin \in {2000, 2700, 3000, 6500, 7000}}
    \cup {(k_mode :> m_cct) @@ (k_brightness :> 150)}
OtherValues ==
    {EmptyDict, (k_mode :> <<"u", "n", "k", "n", "o", "w", "n">>), (k_r :> 5),
     (k_mode :> <<"u", "n", "k", "n", "o", "w", "n">>) @@ (k_r :> 300)}
PowerValues ==
    {(k_raw_value :> 123456789), (k_raw_value :> 0 - 7),
     (k_raw_value :> 5) @@ (<<"p", "o", "w", "e", "r">> :> 1234),
     (<<"p", "o", "w", "e", "r">> :> 1234) @@ (<<"v", "o", "l", "t", "a", "g", "e">> :> 230),
     (k_pf :> 5)}
HandlerValues == RgbValues \cup CctValues \cup OtherValues \cup PowerValues

\* readings with a value, and readings without the key "value"
HandlerInputs ==
    {[device_type |-> t, device_id |-> <<"1">>, value |-> v,
      timestamp |-> <<"t">>, source |-> <<"s">>] :
        t \in {ph, pm, <<"x", "x">>}, v \in HandlerValues}
    \cup {[device_type |-> t, device_id |-> <<"1">>] : t \in {ph, pm}}

\* the positions after a direct call of a handler
HandlerRest == {"idle", "light_ret", "power_ret"}

\* a reading is at hand for a handler
HandlerInput ==
    /\ stage \in HandlerRest
    /\ \E data \in HandlerInputs : parsed_data' = data
    /\ stage' = "parsed"
    /\ prev' = stage
    /\ processed_data' = NoData
    /\ UNCHANGED <<mqttVars, bridge, socket, sendVars, emitted, routeVars,
                   mpc, packet_str>>

\* LightHandler().process(data)
LightHandlerCall ==
    /\ stage = "parsed"
    /\ processed_data' = LightProcess(parsed_data)
    /\ stage' = "light_ret"
    /\ UNCHANGED <<mqttVars, bridge, socket, sendVars, emitted, routeVars,
                   mpc, prev, packet_str, parsed_data>>

\* PowerHandler().process(data)
PowerHandlerCall ==
    /\ stage = "parsed"
    /\ processed_data' = PowerProcess(parsed_data)
    /\ stage' = "power_ret"
    /\ UNCHANGED <<mqttVars, bridge, socket, sendVars, emitted, routeVars,
                   mpc, prev, packet_str, parsed_data>>

NextHandlers ==
    \/ HandlerInput
    \/ LightHandlerCall
    \/ PowerHandlerCall

SpecHandlers == InitDecode /\ [][NextHandlers]_vars

\* ---- validate_config (loxprox/config.py) ----
\* Values of the YAML document: a value carries its Python type.
PyStr(s) == [t |-> "str", v |-> s]
PyInt(n) == [t |-> "int", v |-> n]
PyNone == [t |-> "none"]
PyList(items) == [t |-> "list", v |-> items]
PyDict(d) == [t |-> "dict", v |-> d]
\* isinstance(x, dict), isinstance(x, list)
IsDict(x) == x.t = "dict"
IsList(x) == x.t = "list"

\* the body of "for device_type, routing_config in config['routing'].items()"
ValidateRoutingEntry(routing_config) ==
    IF ~IsDict(routing_config)
    THEN PyDict([outputs |-> PyList(<<>>)])
    ELSE IF ~Has(routing_config.v, "outputs")
    THEN PyDict(Put(routing_config.v, "outputs", PyList(<<>>)))
    ELSE IF ~IsList(routing_config.v.outputs)
    THEN PyDict(Put(routing_config.v, "outputs",
                    PyList(<<routing_config.v.outputs>>)))
    ELSE routing_config

\* routing entries of a configuration file
RoutingEntries ==
    {PyDict([outputs |-> PyList(<<PyStr("hue"), PyStr("telegraf")>>)]),
     PyDict([outputs |-> PyList(<<>>)]),
     PyDict([outputs |-> PyStr("hue")]),
     PyDict([outputs |-> PyInt(5)]),
     PyDict([outputs |-> PyNone]),
     PyDict([outputs |-> PyDict([name |-> PyStr("hue")])]),
     PyDict(EmptyDict),
     PyDict([enabled |-> PyInt(1)]),
     PyList(<<PyStr("telegraf")>>),
     PyStr("invalid"),
     PyInt(7),
     PyNone}

\* configurations: with a routing section for ph and pm, with one for ph,
\* and without a routing section
RawConfigs ==
    {[routing |-> (ph :> e1) @@ (pm :> e2)] : e1, e2 \in RoutingEntries}
    \cup {[routing |-> (ph :> e)] : e \in RoutingEntries}
    \cup {EmptyDict}

\* validate_config(config): "if 'routing' not in config: config['routing'] =
\* {}", then the loop over the routing entries
ValidateConfig ==
    /\ mpc = "loaded"
    /\ LET section == Get(config, "routing", EmptyDict)
       IN config' = [routing |->
                        [device_type \in DOMAIN section |->
                            ValidateRoutingEntry(section[device_type])]]
    /\ mpc' = "validated"
    /\ UNCHANGED <<mqttVars, bridge, socket, sendVars, emitted, routing,
                   outputs, rIdx, results, sendLog, packetVars>>

\* OutputManager(config): "self.routing = config.get('routing', {})"; the
\* model keeps the outputs list of each entry, which is what route_data
\* reads with ".get('outputs', [])"
ConstructManager ==
    /\ mpc = "validated"
    /\ routing' = [device_type \in DOMAIN config.routing |->
                      Get(config.routing[device_type].v, "outputs",
                          PyList(<<>>)).v]
    /\ mpc' = "new"
    /\ UNCHANGED <<mqttVars, bridge, socket, sendVars, emitted, config,
                   outputs, rIdx, results, sendLog, packetVars>>

\* yaml.safe_load has read a configuration file
InitConfig ==
    /\ InitSinks
    /\ InitCalls
    /\ routing = EmptyDict
    /\ config \in RawConfigs
    /\ outputs = {}
    /\ mpc = "loaded"

NextConfig ==
    \/ ValidateConfig
    \/ ConstructManager

SpecConfig == InitConfig /\ [][NextConfig]_vars

\* ---- the MQTT sink when disconnect() is never called ----
\* the steps of worker w: its loop and the _do_connect it runs
WorkerRun(w) ==
    \/ ReconnectLoopHead(w) \/ ReconnectLoopReturn(w) \/ ReconnectLoopWait(w)
    \/ DcLock(w) \/ DcCleanup(w) \/ DcCreate(w) \/ DcConnect(w) \/ DcCheck(w)

\* the steps of a connect() call in progress on the caller's thread
ConnectRun ==
    \/ DcLock(Caller) \/ DcCleanup(Caller) \/ DcCreate(Caller)
    \/ DcConnect(Caller) \/ DcCheck(Caller)
    \/ ConnectSrtCheck \/ ConnectSrtStart

NextNoDisconnect ==
    \/ DoConnectStep
    \/ Connect
    \/ ConnectSrtCheck
    \/ ConnectSrtStart
    \/ WorkerStep
    \/ TransportStep

\* Fair scheduling: a started thread keeps running.  A worker gets
\* reconnect_lock if it is free again and again; a call of connect() and a
\* callback in progress go on.  The network is not fair: no CONNACK has to
\* arrive.
FairScheduling ==
    /\ \A w \in Workers : SF_vars(WorkerRun(w))
    /\ WF_vars(ConnectRun)
    /\ \A c \in Clients : WF_vars(OnDisconnectSrtStart(c))

SpecNoDisconnect == Init /\ [][NextNoDisconnect]_vars /\ FairScheduling

\* ---- claims ----

\* C1: at most one reconnection worker running _reconnect_loop is alive at
\* any time, under every interleaving of a failing connect() on the caller's
\* thread and _on_disconnect(rc != 0) on the network loop thread.
C1Claim == Cardinality(AliveWorkers) <= 1

\* C8: at most one thread (the caller in connect() or a reconnection worker)
\* is inside the body of _do_connect at any time.
C8MutualExclusion == Cardinality({t \in Threads : pc[t] \in DoConnectBody}) <= 1

\* a thread is inside the body while another one waits for the lock
C8Witness ==
    \E t, u \in Threads :
        /\ t # u
        /\ pc[t] \in DoConnectBody
        /\ pc[u] = "dc_lock"

\* positions of the caller inside connect() and inside disconnect()
ConnectPcs == DoConnectPcs \cup {"srt_check", "srt_start"}
DisconnectPcs == {"d_join", "d_check", "d_stop", "d_none", "d_flag"}

\* C2: from the return of disconnect() until the next call on the sink, the
\* sink is not connected (connected = false, client = none) and no
\* reconnection worker begins a connect attempt.
C2Claim ==
    [][ pc'[Caller] = "disconnect_ret" =>
            /\ client' = None
            /\ connected' = FALSE
            /\ \A w \in Workers : pc'[w] = "dc_lock" => pc[w] = "dc_lock"
      ]_vars

\* C3: whenever connect() returns false, exactly one reconnection worker is
\* alive at the return.
C3Claim ==
    [][ (pc[Caller] \in {"srt_check", "srt_start"} /\ pc'[Caller] = "connect_false")
            => Cardinality(AliveWorkers') = 1
      ]_vars

\* C4: when _on_disconnect fires with rc != 0 on a sink that was Connected,
\* the sink is not connected and a reconnection worker is alive when the
\* callback ends; when it fires with rc = 0, connected becomes false and no
\* worker is started.
C4Claim ==
    [][ /\ \A c \in Clients :
            (connected /\ OnDisconnect(c) /\ tpc'[c] = "idle")
                => (~connected' /\ AliveWorkers' # {})
        /\ \A c \in Clients :
            OnDisconnectSrtStart(c) => AliveWorkers' # {}
        /\ ( /\ DisconnectStop \/ (\E t \in Threads : DcCleanup(t))
             /\ client # None
             /\ cst[client] \in {"wait", "est"}
             /\ connected /\ ~connected' )
                => (AliveWorkers' = AliveWorkers /\ reconnect_thread' = reconnect_thread)
      ]_vars

\* C5: in one activation of the loop the wait after failed attempt k uses
\* the short interval when k <= retry_initial_attempts and the long one when
\* k > retry_initial_attempts; after a long interval the activation never
\* uses the short one again; the counter returns to 0 only by a successful
\* connect.
C5Claim ==
    [][ /\ \A w \in Workers :
            pc'[w] = "w_wait" =>
                (retry_interval'[w] = "short" <=> attemptNo'[w] <= retry_initial_attempts)
        /\ \A w \in Workers :
            (retry_interval[w] = "long" /\ pc'[w] \notin {"unused", "dead"})
                => retry_interval'[w] = "long"
        /\ (reconnect_attempts # 0 /\ reconnect_attempts' = 0) => connected'
      ]_vars

\* C6: after a successful attempt the loop makes no further attempt, and at
\* the moment the loop terminates reconnect_attempts = 0 and connected = true.
C6Claim ==
    [][ \A w \in Workers :
            pc[w] = "w_success" =>
                /\ pc'[w] \in {"w_success", "dead", "unused"}
                /\ pc'[w] # "w_success" => (reconnect_attempts = 0 /\ connected)
      ]_vars

\* C7: connect() called on a Connected sink is a no-op: no step of the call
\* changes the transport client, the connected flag or the attempt counter,
\* nothing is torn down or created, and the call does not take the failure
\* path.
C7Claim ==
    [][ (wasConnected /\ pc[Caller] \in ConnectPcs /\ pc'[Caller] # pc[Caller]) =>
            /\ client' = client
            /\ connected' = connected
            /\ reconnect_attempts' = reconnect_attempts
            /\ cst' = cst
            /\ loopOn' = loopOn
            /\ pc'[Caller] \notin {"srt_check", "srt_start"}
      ]_vars

\* C9: every step that changes client, connected or reconnect_attempts is a
\* step of a thread that holds reconnect_lock.
C9Claim ==
    [][ (client' # client \/ connected' # connected
            \/ reconnect_attempts' # reconnect_attempts)
            => \E t \in reconnect_lock : pc'[t] # pc[t]
      ]_vars

\* C10: disconnect() of every sink leaves the sink without connection handle
\* and not connected, in whatever state it is called, and a second
\* disconnect() right after the first changes nothing.
C10Claim ==
    [][ /\ (pc[Caller] \in DisconnectPcs /\ pc'[Caller] = "disconnect_ret")
            => (client' = None /\ ~connected')
        /\ (again /\ pc[Caller] \in DisconnectPcs /\ pc'[Caller] # pc[Caller])
            => UNCHANGED <<client, connected, reconnect_attempts,
                           reconnect_thread, stop_reconnect, cst, loopOn>>
        /\ HueDisconnect => ~bridge'
        /\ TelegrafDisconnect => ~socket'
      ]_vars

\* C11: MQTTOutput.send never raises and always returns a boolean, whatever
\* disconnect(), the callbacks and the reconnection worker do meanwhile; it
\* issues no publish when the client is absent or connected is false at its
\* check; it returns true only when a publish was issued and reported
\* success.
C11Claim ==
    [][ /\ spc' # "raised"
        /\ (SendCheck /\ (client = None \/ ~connected))
              => (spc' = "ret_false" /\ published' = NoData)
        /\ (published' # published /\ published' # NoData)
              => (spc = "s_publish" /\ client # None /\ published' = msg)
        /\ (spc' = "ret_true" /\ spc # "ret_true")
              => /\ spc = "s_publish"
                 /\ published' # NoData
                 /\ client # None
                 /\ cst[client] \in {"wait", "est"}
      ]_vars

\* a send has passed its check and disconnect() has removed the client
\* before the publish
C11Witness ==
    /\ spc = "s_publish"
    /\ client = None
    /\ pc[Caller] \in {"d_flag", "disconnect_ret"}

\* C12: when a publish on a Connected sink fails at send time (it raises or
\* returns a non-success code), send returns false, the sink leaves Connected
\* and a reconnection worker is started.
C12Claim ==
    [][ ( /\ spc = "s_publish"
          /\ spc' = "ret_false"
          /\ client # None
          /\ connected
          /\ cst[client] = "est" )
            => (~connected' /\ AliveWorkers' # {})
      ]_vars

\* the names of a list, the number of times a name occurs in it, the names
\* whose send route_data invoked, and the way the last send to a name ended
NamesOf(seq) == {seq[i] : i \in 1..Len(seq)}
Occurrences(seq, x) == Cardinality({i \in 1..Len(seq) : seq[i] = x})
SendNames == [i \in 1..Len(sendLog) |-> sendLog[i].name]
LastOut(n) ==
    LET i == CHOOSE i \in 1..Len(sendLog) :
                 /\ sendLog[i].name = n
                 /\ \A j \in (i + 1)..Len(sendLog) : sendLog[j].name # n
    IN sendLog[i].out

\* C13: the mapping route_data returns has exactly the names of the routing
\* entry as its keys; send is invoked once per occurrence of a name whose
\* sink is initialized and on no other sink; for a name that occurs several
\* times the mapping holds the outcome of the last occurrence; without an
\* entry or with an empty outputs list the mapping is empty and nothing is
\* sent.
C13Claim ==
    stage = "routed" =>
        LET target == TargetOutputs(processed_data)
        IN /\ DOMAIN results = NamesOf(target)
           /\ \A n \in OutputNames :
                Occurrences(SendNames, n) =
                    IF n \in outputs THEN Occurrences(target, n) ELSE 0
           /\ \A n \in NamesOf(target) :
                results[n] = (n \in outputs /\ LastOut(n) = "true")
           /\ target = <<>> => (results = EmptyDict /\ sendLog = <<>>)

\* a name occurs twice, its first send succeeded and its second did not
C13Witness ==
    /\ stage = "routed"
    /\ Len(sendLog) = 2
    /\ sendLog[1].name = sendLog[2].name
    /\ sendLog[1].out = "true"
    /\ sendLog[2].out = "false"

\* C14: route_data invokes send on the initialized sinks in the order of
\* their names in the routing entry, and an earlier name that is not
\* initialized, whose send returns false or whose send raises does not
\* prevent the send to a later name.
C14Claim ==
    stage = "routed" =>
        LET Stored(n) == n \in outputs
        IN SendNames = SelectSeq(TargetOutputs(processed_data), Stored)

\* the first send raised, the second name is not initialized, and the third
\* name's send was invoked
C14Witness ==
    /\ stage = "routed"
    /\ Len(TargetOutputs(processed_data)) = 3
    /\ TargetOutputs(processed_data)[2] \notin outputs
    /\ Len(sendLog) = 2
    /\ sendLog[1].out = "raised"
    /\ sendLog[2].name = TargetOutputs(processed_data)[3]

\* the sink of a name is connected: the bridge object, the socket, or the
\* MQTT client with connected = True
SinkConnected(n) ==
    CASE n = "hue" -> bridge
      [] n = "telegraf" -> socket
      [] n = "mqtt" -> client # None /\ connected
      [] OTHER -> FALSE

\* C15: in a dispatch to N configured sinks of which K are connected,
\* whatever way each reached the connected state (its initial connect or a
\* later reconnection), every connected sink gets its send and so its true
\* entry: route_data never passes over the name of a sink that is connected
\* at that time without invoking its send.
C15Claim ==
    [][ \A n \in {"hue", "telegraf", "mqtt"} :
          (AtOutput(n) /\ SinkConnected(n) /\ rIdx' # rIdx)
              => Len(sendLog') = Len(sendLog) + 1
      ]_vars

\* C16: process_packet never raises; when decoding fails, no handler is
\* registered or the handler rejects the reading, no send is invoked for the
\* packet and no state of the sinks or of the manager changes, so the next
\* packet is processed as if the failed one had not arrived.
C16Claim ==
    [][ /\ stage' # "raised"
        /\ stage' = "dropped" =>
              /\ sendLog' = <<>>
              /\ results' = EmptyDict
              /\ UNCHANGED <<mqttVars, bridge, socket, sendVars, emitted,
                             routing, config, outputs, mpc>>
        /\ ( \/ (sendLog' # sendLog /\ sendLog' # <<>>)
             \/ spc' # spc
             \/ published' # published
             \/ emitted' # emitted )
              => (stage \in {"route", "send_mqtt"} /\ processed_data # NoData)
      ]_vars

\* a packet was dropped and the packet after it was routed with a send
C16Witness ==
    /\ prev = "dropped"
    /\ stage = "done"
    /\ sendLog # <<>>

\* C17: for every reading the decode and handler stages produce from a valid
\* packet, send on a Connected broker sink publishes the packet text (the
\* input line or a reconstruction of it) to <prefix>/type/<mapped name>.
C17Claim ==
    [][ ( /\ AtOutput("mqtt")
          /\ stage' = "send_mqtt"
          /\ client # None
          /\ connected )
            => /\ spc' = "s_publish"
               /\ msg'.topic = topic_prefix \o <<"/", "t", "y", "p", "e", "/">>
                                \o TopicName(processed_data.device_type)
               /\ msg'.payload \in {packet_str, Strip(packet_str),
                                    Join(SubSeq(PacketParts(packet_str), 1, 3), ";")}
      ]_vars

\* C18: for every reading the decode and handler stages produce from a valid
\* packet, send on a metrics sink whose socket exists hands one line for
\* that reading to the socket.
C18Claim ==
    [][ ( /\ AtOutput("telegraf")
          /\ "telegraf" \in outputs
          /\ socket
          /\ rIdx' # rIdx )
            => /\ FormatLineProtocol(processed_data) # NoData
               /\ emitted' = FormatLineProtocol(processed_data)
      ]_vars

\* the text after the second ";" of the stripped packet
Remainder(packet) ==
    LET t == Strip(packet)
        u == SubSeq(t, Find(t, ";") + 1, Len(t))
    IN SubSeq(u, Find(u, ";") + 1, Len(u))

\* C19: parse_packet uses only the first two ";": the timestamp is the text
\* before the first, the source the text between the first and the second,
\* and the whole remainder, further ";" included, is decoded as the data; a
\* packet with fewer than three fields is a decode failure.
C19Claim ==
    [][ (stage = "decoded" /\ stage' # "decoded") =>
            LET parts == PacketParts(packet_str)
                d == ParseData(Remainder(packet_str))
            IN IF Len(parts) < 3 \/ d = NoData
               THEN parsed_data' = NoData
               ELSE /\ parsed_data' # NoData
                    /\ parsed_data'.timestamp = parts[1]
                    /\ parsed_data'.source = parts[2]
                    /\ parsed_data'.device_type = d.device_type
                    /\ parsed_data'.device_id = d.device_id
                    /\ parsed_data'.value = d.value
      ]_vars

\* the packet's data is pm<id>.<payload> with a ":" in the payload, the
\* payload being the text after the first "."
PowerPayload(packet) ==
    LET data == PacketParts(packet)[3]
    IN SubSeq(data, Find(data, ".") + 1, Len(data))
IsPowerKeyValue(packet) ==
    /\ Len(PacketParts(packet)) >= 3
    /\ LET data == PacketParts(packet)[3]
           i == Find(data, ".")
       IN /\ i # 0
          /\ DeviceMatches(SubSeq(data, 1, i - 1))
          /\ DeviceType(SubSeq(data, 1, i - 1)) = pm
          /\ Find(PowerPayload(packet), ":") # 0

\* C20: for a legacy power meter packet pm<id>.<payload> whose payload has a
\* ":", the reading's value maps each key of a well-formed key:float pair to
\* its float; decoding fails only when no valid pair remains or pf is
\* absent; float literals with a decimal point are covered.
C20Claim ==
    [][ (stage = "decoded" /\ stage' # "decoded" /\ IsPowerKeyValue(packet_str)) =>
            LET expected == ParsePowerMeterPayload(PowerPayload(packet_str))
            IN IF expected = NoData
               THEN parsed_data' = NoData
               ELSE /\ parsed_data' # NoData
                    /\ parsed_data'.device_type = pm
                    /\ parsed_data'.value = expected
      ]_vars

\* the integer payload of the light packet being processed
PayloadOf(packet) ==
    LET data == PacketParts(packet)[3]
    IN IntOf(SubSeq(data, Find(data, ".") + 1, Len(data)))
IsIntPayload(packet) ==
    /\ Len(PacketParts(packet)) >= 3
    /\ LET data == PacketParts(packet)[3]
       IN IsIntText(SubSeq(data, Find(data, ".") + 1, Len(data)))

\* C21: for every light payload p in [0, 100100100] decoding yields mode
\* rgb, device type ph and the device id of the packet, and the channels b,
\* g, r are the truncated values of group * 255 / 100 for the groups
\* B = p div 10^6, G = (p div 1000) mod 1000, R = p mod 1000, which make up
\* p again; ph9.100050025 decodes to r = 63, g = 127, b = 255.
C21Claim ==
    [][ (stage = "decoded" /\ stage' # "decoded" /\ IsIntPayload(packet_str)
         /\ 0 <= PayloadOf(packet_str) /\ PayloadOf(packet_str) <= 100100100) =>
            LET p == PayloadOf(packet_str)
                B == p \div 1000000
                G == (p \div 1000) % 1000
                R == p % 1000
            IN /\ B * 1000000 + G * 1000 + R = p
               /\ parsed_data' # NoData
               /\ parsed_data'.device_type = ph
               /\ parsed_data'.device_id = <<"9">>
               /\ parsed_data'.value[k_mode] = m_rgb
               /\ DOMAIN parsed_data'.value = {k_mode, k_r, k_g, k_b}
               /\ 100 * parsed_data'.value[k_b] <= B * 255
               /\ B * 255 < 100 * (parsed_data'.value[k_b] + 1)
               /\ 100 * parsed_data'.value[k_g] <= G * 255
               /\ G * 255 < 100 * (parsed_data'.value[k_g] + 1)
               /\ 100 * parsed_data'.value[k_r] <= R * 255
               /\ R * 255 < 100 * (parsed_data'.value[k_r] + 1)
               /\ p = 100050025 =>
                    /\ parsed_data'.value[k_r] = 63
                    /\ parsed_data'.value[k_g] = 127
                    /\ parsed_data'.value[k_b] = 255
      ]_vars

\* the packet ph9.100050025 has been decoded
C21Witness ==
    /\ stage = "parsed"
    /\ IsIntPayload(packet_str)
    /\ PayloadOf(packet_str) = 100050025
    /\ parsed_data.value[k_r] = 63

\* C22: the CCT encoding round-trips: for brightness in 0..100 and kelvin in
\* 2700..6500 the payload 200000000 + brightness * 10000 + kelvin decodes to
\* mode cct with that brightness and that kelvin; ph9.201003000 decodes to
\* brightness 100, kelvin 3000.
C22Claim ==
    [][ (stage = "decoded" /\ stage' # "decoded" /\ IsIntPayload(packet_str)
         /\ PayloadOf(packet_str) >= 200000000) =>
            LET p == PayloadOf(packet_str)
                brightness == (p - 200000000) \div 10000
                kelvin == (p - 200000000) % 10000
            IN (brightness \in 0..100 /\ kelvin \in 2700..6500) =>
                  /\ p = 200000000 + brightness * 10000 + kelvin
                  /\ 200002700 <= p /\ p <= 201006500
                  /\ parsed_data' # NoData
                  /\ parsed_data'.value =
                        (k_mode :> m_cct) @@ (k_brightness :> brightness)
                        @@ (k_kelvin :> kelvin)
      ]_vars

\* the packet ph9.201003000 has been decoded
C22Witness ==
    /\ stage = "parsed"
    /\ IsIntPayload(packet_str)
    /\ PayloadOf(packet_str) = 201003000
    /\ parsed_data.value[k_brightness] = 100
    /\ parsed_data.value[k_kelvin] = 3000

\* a well-formed RGB encoding: a value in [0, 100100100] whose three groups
\* are percentages; a well-formed CCT encoding: a value in
\* [200002700, 201006500]
WellFormedRgb(p) ==
    /\ 0 <= p /\ p <= 100100100
    /\ p \div 1000000 <= 100
    /\ (p \div 1000) % 1000 <= 100
    /\ p % 1000 <= 100
WellFormedCct(p) == 200002700 <= p /\ p <= 201006500

\* C23: a light packet with an integer payload is decoded successfully only
\* if the payload is a well-formed RGB encoding or a well-formed CCT
\* encoding; every other integer, a payload with an out-of-range percentage
\* group included, is a decode failure.
C23Claim ==
    [][ (stage = "decoded" /\ stage' = "parsed" /\ IsIntPayload(packet_str)) =>
            \/ WellFormedRgb(PayloadOf(packet_str))
            \/ WellFormedCct(PayloadOf(packet_str))
      ]_vars

\* max(lo, min(hi, x))
MaxMin(lo, hi, x) ==
    LET m == IF x < hi THEN x ELSE hi
    IN IF lo > m THEN lo ELSE m
ValueOf(data) == IF Has(data, "value") THEN data.value ELSE EmptyDict
ModeIs(value, mode) == Has(value, k_mode) /\ value[k_mode] = mode

\* C24: LightHandler.process on a ph reading returns, for mode rgb, each of
\* r, g, b equal to max(0, min(255, input)) independently, and for mode
\* cct, brightness = max(0, min(100, input)) and kelvin =
\* max(2700, min(6500, input)); in-range values are returned unchanged; any
\* other mode, or a device type other than ph, is rejected.
C24Claim ==
    [][ (stage = "parsed" /\ stage' = "light_ret") =>
            LET value == ValueOf(parsed_data)
                result == processed_data'
            IN IF parsed_data.device_type # ph THEN result = NoData
               ELSE IF ModeIs(value, m_rgb)
               THEN /\ result # NoData
                    /\ \A k \in {k_r, k_g, k_b} :
                         Has(value, k) =>
                            /\ result.value[k] = MaxMin(0, 255, value[k])
                            /\ value[k] \in 0..255 => result.value[k] = value[k]
               ELSE IF ModeIs(value, m_cct)
               THEN /\ result # NoData
                    /\ Has(value, k_brightness) =>
                         /\ result.value[k_brightness] =
                               MaxMin(0, 100, value[k_brightness])
                         /\ value[k_brightness] \in 0..100 =>
                               result.value[k_brightness] = value[k_brightness]
                    /\ Has(value, k_kelvin) =>
                         /\ result.value[k_kelvin] =
                               MaxMin(2700, 6500, value[k_kelvin])
                         /\ value[k_kelvin] \in 2700..6500 =>
                               result.value[k_kelvin] = value[k_kelvin]
               ELSE result = NoData
      ]_vars

\* the handler has clamped r = 300 to 255 and g = -50 to 0 and left b = 128
C24Witness ==
    /\ stage = "light_ret"
    /\ parsed_data.device_type = ph
    /\ ModeIs(ValueOf(parsed_data), m_rgb)
    /\ DOMAIN ValueOf(parsed_data) = {k_mode, k_r, k_g, k_b}
    /\ parsed_data.value[k_r] = 300
    /\ parsed_data.value[k_g] = 0 - 50
    /\ parsed_data.value[k_b] = 128
    /\ processed_data # NoData
    /\ processed_data.value[k_r] = 255
    /\ processed_data.value[k_g] = 0
    /\ processed_data.value[k_b] = 128

\* C25: PowerHandler.process on a pm reading never rejects on the content
\* of value: with raw_value in value the result's value is {raw: that
\* integer}, otherwise it is the input value mapping unchanged; it returns
\* None only when the device type is not pm.
C25Claim ==
    [][ (stage = "parsed" /\ stage' = "power_ret") =>
            LET value == ValueOf(parsed_data)
                result == processed_data'
            IN IF parsed_data.device_type # pm THEN result = NoData
               ELSE /\ result # NoData
                    /\ result.device_type = pm
                    /\ result.device_id = parsed_data.device_id
                    /\ IF Has(value, k_raw_value)
                       THEN result.value = (k_raw :> value[k_raw_value])
                       ELSE result.value = value
      ]_vars

\* a pm reading with structured fields and no raw_value has been passed
\* through
C25Witness ==
    /\ stage = "power_ret"
    /\ parsed_data.device_type = pm
    /\ Has(parsed_data, "value")
    /\ ~Has(parsed_data.value, k_raw_value)
    /\ DOMAIN parsed_data.value # {}
    /\ processed_data # NoData
    /\ processed_data.value = parsed_data.value

\* C26: after validate_config every routing entry is a mapping whose
\* outputs is a list: an outputs value that is a bare string becomes the
\* one-element list holding it, an entry that is not a mapping gets an empty
\* outputs list, a mapping without outputs gets an empty list, any other
\* unrecognized outputs value becomes an empty list, and a well-formed list
\* is left unchanged.
C26Claim ==
    [][ (mpc = "loaded" /\ mpc' = "validated" /\ Has(config, "routing")) =>
            \A device_type \in DOMAIN config.routing :
                LET entry == config.routing[device_type]
                    after == config'.routing[device_type]
                IN /\ IsDict(after)
                   /\ Has(after.v, "outputs")
                   /\ IsList(after.v.outputs)
                   /\ after.v.outputs =
                        IF ~IsDict(entry) THEN PyList(<<>>)
                        ELSE IF ~Has(entry.v, "outputs") THEN PyList(<<>>)
                        ELSE IF IsList(entry.v.outputs) THEN entry.v.outputs
                        ELSE IF entry.v.outputs.t = "str"
                        THEN PyList(<<entry.v.outputs>>)
                        ELSE PyList(<<>>)
      ]_vars

\* a connect attempt fails: _do_connect returns False on some thread
AttemptFails ==
    \E t \in Threads :
        /\ pc[t] \in {"dc_connect", "dc_check"}
        /\ pc'[t] \in {"w_wait", "srt_check"}
\* a step of the model waits at a bound: the counter of attempts or the
\* number of thread objects
AtBound ==
    \/ \E w \in Workers :
          /\ pc[w] = "w_loop" /\ ~stop_reconnect /\ ~connected
          /\ (reconnect_attempts >= MaxAttempts \/ attemptNo[w] >= MaxAttempts)
    \/ FreeWorkers = {} /\ (pc[Caller] = "srt_start"
                            \/ \E c \in Clients : tpc[c] = "srt_start")

C29Claim ==
    [][ /\ outputs' # outputs =>
              \/ /\ mpc \in {"new", "init_telegraf", "init_mqtt"}
                 /\ outputs \subseteq outputs'
              \/ /\ mpc = "shut_mqtt"
                 /\ mpc' = "stopped"
                 /\ outputs' = {}
        /\ (mpc = "init_mqtt" /\ mpc' # mpc /\ pc[Caller] = "connect_false")
              => "mqtt" \notin outputs'
        /\ \A n \in OutputNames :
              (AtOutput(n) /\ n \notin outputs /\ rIdx' # rIdx) =>
                  /\ Has(results', n)
                  /\ results'[n] = FALSE
                  /\ sendLog' = sendLog
      ]_vars

\* the initial connect() of the MQTT sink returned false, a reconnection
\* worker has connected it since, and a dispatch to its name has recorded
\* false without a send
C29Witness ==
    /\ mpc = "running"
    /\ stage = "routed"
    /\ "mqtt" \notin outputs
    /\ client # None
    /\ connected
    /\ \E w \in Workers : pc[w] = "w_success"
    /\ Has(results, "mqtt")
    /\ results["mqtt"] = FALSE
    /\ \A i \in 1..Len(sendLog) : sendLog[i].name # "mqtt"

\* C30: after OutputManager.shutdown() has returned, no reconnection worker
\* of a sink instance created during the initialization is alive and no such
\* instance is or becomes connected, the instances whose initial connect()
\* failed included.
C30Claim ==
    mpc = "stopped" => (AliveWorkers = {} /\ ~connected)

\* C27: during one dispatch every routed sink receives the reading the
\* handler produced and no send modifies it: from the call of route_data to
\* its return the reading stays what process_data returned, so the reading a
\* later sink sees does not depend on the sinks that ran before it.
C27Claim ==
    [][ /\ stage \in {"handled", "route", "send_mqtt"} =>
              processed_data' = processed_data
        /\ stage' \in {"route", "send_mqtt", "routed"} =>
              processed_data' = ProcessData(parsed_data')
      ]_vars

\* route_data has returned after the sends of the Hue sink and then of the
\* Telegraf sink on a light reading, which is still the handler's result
C27Witness ==
    /\ stage = "routed"
    /\ Len(sendLog) >= 2
    /\ sendLog[1].name = "hue"
    /\ sendLog[2].name = "telegraf"
    /\ processed_data = ProcessData(parsed_data)
    /\ processed_data.device_type = ph
    /\ Has(processed_data.value, k_mode)

====
